---- MODULE Spec2Model ----
(***************************************************************************)
(* Outbound API Gateway (OAGW): the in-memory route repository, the        *)
(* control plane that orchestrates it, the proxy pipeline and the rate     *)
(* limiter, as state machines.                                             *)
(*                                                                         *)
(* Conventions.                                                            *)
(*   Option<T>        <<>> is None, <<x>> is Some(x).                      *)
(*   String           a sequence of one-character strings, so that         *)
(*                    len() and starts_with() are computed.                *)
(*   DashMap<K, V>    a function whose DOMAIN is the set of present keys;  *)
(*                    every DashMap call is one atomic step.               *)
(*   Result<T, E>     a record [ok |-> BOOLEAN, ...].                      *)
(***************************************************************************)
EXTENDS Integers, Sequences, FiniteSets, TLC

VARIABLES
    store,          \* InMemoryRouteRepo.store: route_id -> Route
    upstream_index, \* InMemoryRouteRepo.upstream_index: upstream_id -> Seq(route_id)
    nextRid,        \* number of route ids handed out by Uuid::new_v4()
    fm,             \* the last find_matching call and its result
    upstreams,      \* upstream repository: upstream_id -> Upstream
    nextUid,        \* number of upstream ids handed out by Uuid::new_v4()
    proc,           \* per task: the control-plane call in progress and its locals
    last,           \* the last completed call, its arguments and the state before it
    requests,       \* per task: the proxy request it serves, its stage and locals
    pxCount,        \* number of proxy requests started
    buckets,        \* rate limiter: key -> token bucket cell
    now,            \* the rate limiter's clock, in refill windows
    debitLog,       \* history: the admitted debits (key, time, cost, request)
    rl              \* per task: the try_consume call in progress and its locals

\* The data-plane variables.
dpVars == <<requests, pxCount, buckets, now, debitLog, rl>>

vars == <<store, upstream_index, nextRid, fm, upstreams, nextUid, proc, last, dpVars>>

-----------------------------------------------------------------------------
(* Bounds of the model.                                                    *)

\* Routes created in the route-matching specification.
MatchMaxRoutes == 2

\* Concurrent control-plane tasks, and the upstreams and routes they create.
NProcs == 2
MaxUpstreams == 1
MaxRoutes == 2

\* Upstreams and routes created in the one-call-at-a-time specification.
SeqMaxUpstreams == 1
SeqMaxRoutes == 3

-----------------------------------------------------------------------------
(* Values.                                                                 *)

Tenants == {"tA", "tB"}

\* i32::MIN, the initial value of best_priority.
I32_MIN == (-2147483647) - 1

None == <<>>
Some(x) == <<x>>
IsSome(o) == o /= <<>>
Unwrap(o) == o[1]

\* str::starts_with on byte sequences.
StartsWith(s, prefix) ==
    /\ Len(prefix) <= Len(s)
    /\ SubSeq(s, 1, Len(prefix)) = prefix

\* DashMap::insert / DashMap::remove on a function.
MapInsert(m, k, v) == [x \in (DOMAIN m) \cup {k} |-> IF x = k THEN v ELSE m[x]]
MapRemove(m, k) == [x \in (DOMAIN m) \ {k} |-> m[x]]
EmptyMap == [x \in {} |-> 0]

\* Vec::retain(|x| *x != id)
RECURSIVE Retain(_, _)
Retain(s, id) ==
    IF s = <<>> THEN <<>>
    ELSE IF Head(s) = id THEN Retain(Tail(s), id)
    ELSE <<Head(s)>> \o Retain(Tail(s), id)

SeqToSet(s) == {s[i] : i \in 1..Len(s)}

-----------------------------------------------------------------------------
(* Characters.  An ASCII character is a one-character string ("\t", "\n",  *)
(* "\f", "\r" for those four controls); any other character is written by  *)
(* its code point, "U+017F".  The case mappings and the properties Cased   *)
(* and Case_Ignorable are the tables str::to_uppercase and                 *)
(* str::to_lowercase consult.                                              *)

\* GRAVE ACCENT, written by its code point: a string of the module cannot
\* hold the character.
GRAVE == "U+0060"

LowerChars == {"a","b","c","d","e","f","g","h","i","j","k","l","m",
               "n","o","p","q","r","s","t","u","v","w","x","y","z"}
UpperChars == {"A","B","C","D","E","F","G","H","I","J","K","L","M",
               "N","O","P","Q","R","S","T","U","V","W","X","Y","Z"}
DigitChars == {"0","1","2","3","4","5","6","7","8","9"}

UpperSeq == <<"A","B","C","D","E","F","G","H","I","J","K","L","M","N","O","P","Q","R","S","T","U","V","W","X","Y","Z">>
LowerSeq == <<"a","b","c","d","e","f","g","h","i","j","k","l","m","n","o","p","q","r","s","t","u","v","w","x","y","z">>

\* The ASCII punctuation and the space: with letters and digits, the bytes
\* 0x20..0x7e.
AsciiPunctuation ==
    {" ", "!", "\"", "#", "$", "%", "&", "(", ")", "*", "+", ",", "-", ".", "/",
     ":", ";", "<", "=", ">", "?", "@", "[", "\\", "]", "^", "_", "'", GRAVE, "{", "|", "}", "~"}
AsciiVisible == LowerChars \cup UpperChars \cup DigitChars \cup AsciiPunctuation

\* The control characters: bytes 0x00..0x1f and 0x7f.
ControlChars ==
    {"U+0000", "U+0001", "U+0002", "U+0003", "U+0004", "U+0005", "U+0006", "U+0007",
     "U+0008", "\t", "\n", "U+000B", "\f", "\r", "U+000E", "U+000F",
     "U+0010", "U+0011", "U+0012", "U+0013", "U+0014", "U+0015", "U+0016", "U+0017",
     "U+0018", "U+0019", "U+001A", "U+001B", "U+001C", "U+001D", "U+001E", "U+001F",
     "U+007F"}

\* char::is_whitespace: the characters with the property White_Space.
WhiteSpaceChars ==
    {" ", "\t", "\n", "U+000B", "\f", "\r", "U+0085", "U+00A0", "U+1680",
     "U+2000", "U+2001", "U+2002", "U+2003", "U+2004", "U+2005", "U+2006", "U+2007",
     "U+2008", "U+2009", "U+200A", "U+2028", "U+2029", "U+202F", "U+205F", "U+3000"}

\* The ASCII characters.
AsciiChars == AsciiVisible \cup ControlChars

\* GREEK CAPITAL LETTER SIGMA, whose lower case depends on its position.
SIGMA == "U+03A3"

\* core::unicode::conversions: the uppercase mapping of every character
\* outside ASCII that has one, as pairs <<character, mapping>>; a mapping
\* may be longer than one character.  Unicode 17.0: the mappings of
\* Unicode 15.0 and the case pairs of Garay, Beria Erfe, Latin and
\* Cyrillic added in 16.0 and 17.0.
UPPERCASE_TABLE ==
    {
     <<"U+00B5", <<"U+039C">>>>, <<"U+00DF", <<"S", "S">>>>, <<"U+00E0", <<"U+00C0">>>>,
     <<"U+00E1", <<"U+00C1">>>>, <<"U+00E2", <<"U+00C2">>>>, <<"U+00E3", <<"U+00C3">>>>,
     <<"U+00E4", <<"U+00C4">>>>, <<"U+00E5", <<"U+00C5">>>>, <<"U+00E6", <<"U+00C6">>>>,
     <<"U+00E7", <<"U+00C7">>>>, <<"U+00E8", <<"U+00C8">>>>, <<"U+00E9", <<"U+00C9">>>>,
     <<"U+00EA", <<"U+00CA">>>>, <<"U+00EB", <<"U+00CB">>>>, <<"U+00EC", <<"U+00CC">>>>,
     <<"U+00ED", <<"U+00CD">>>>, <<"U+00EE", <<"U+00CE">>>>, <<"U+00EF", <<"U+00CF">>>>,
     <<"U+00F0", <<"U+00D0">>>>, <<"U+00F1", <<"U+00D1">>>>, <<"U+00F2", <<"U+00D2">>>>,
     <<"U+00F3", <<"U+00D3">>>>, <<"U+00F4", <<"U+00D4">>>>, <<"U+00F5", <<"U+00D5">>>>,
     <<"U+00F6", <<"U+00D6">>>>, <<"U+00F8", <<"U+00D8">>>>, <<"U+00F9", <<"U+00D9">>>>,
     <<"U+00FA", <<"U+00DA">>>>, <<"U+00FB", <<"U+00DB">>>>, <<"U+00FC", <<"U+00DC">>>>,
     <<"U+00FD", <<"U+00DD">>>>, <<"U+00FE", <<"U+00DE">>>>, <<"U+00FF", <<"U+0178">>>>,
     <<"U+0101", <<"U+0100">>>>, <<"U+0103", <<"U+0102">>>>, <<"U+0105", <<"U+0104">>>>,
     <<"U+0107", <<"U+0106">>>>, <<"U+0109", <<"U+0108">>>>, <<"U+010B", <<"U+010A">>>>,
     <<"U+010D", <<"U+010C">>>>, <<"U+010F", <<"U+010E">>>>, <<"U+0111", <<"U+0110">>>>,
     <<"U+0113", <<"U+0112">>>>, <<"U+0115", <<"U+0114">>>>, <<"U+0117", <<"U+0116">>>>,
     <<"U+0119", <<"U+0118">>>>, <<"U+011B", <<"U+011A">>>>, <<"U+011D", <<"U+011C">>>>,
     <<"U+011F", <<"U+011E">>>>, <<"U+0121", <<"U+0120">>>>, <<"U+0123", <<"U+0122">>>>,
     <<"U+0125", <<"U+0124">>>>, <<"U+0127", <<"U+0126">>>>, <<"U+0129", <<"U+0128">>>>,
     <<"U+012B", <<"U+012A">>>>, <<"U+012D", <<"U+012C">>>>, <<"U+012F", <<"U+012E">>>>,
     <<"U+0131", <<"I">>>>, <<"U+0133", <<"U+0132">>>>, <<"U+0135", <<"U+0134">>>>,
     <<"U+0137", <<"U+0136">>>>, <<"U+013A", <<"U+0139">>>>, <<"U+013C", <<"U+013B">>>>,
     <<"U+013E", <<"U+013D">>>>, <<"U+0140", <<"U+013F">>>>, <<"U+0142", <<"U+0141">>>>,
     <<"U+0144", <<"U+0143">>>>, <<"U+0146", <<"U+0145">>>>, <<"U+0148", <<"U+0147">>>>,
     <<"U+0149", <<"U+02BC", "N">>>>, <<"U+014B", <<"U+014A">>>>, <<"U+014D", <<"U+014C">>>>,
     <<"U+014F", <<"U+014E">>>>, <<"U+0151", <<"U+0150">>>>, <<"U+0153", <<"U+0152">>>>,
     <<"U+0155", <<"U+0154">>>>, <<"U+0157", <<"U+0156">>>>, <<"U+0159", <<"U+0158">>>>,
     <<"U+015B", <<"U+015A">>>>, <<"U+015D", <<"U+015C">>>>, <<"U+015F", <<"U+015E">>>>,
     <<"U+0161", <<"U+0160">>>>, <<"U+0163", <<"U+0162">>>>, <<"U+0165", <<"U+0164">>>>,
     <<"U+0167", <<"U+0166">>>>, <<"U+0169", <<"U+0168">>>>, <<"U+016B", <<"U+016A">>>>,
     <<"U+016D", <<"U+016C">>>>, <<"U+016F", <<"U+016E">>>>, <<"U+0171", <<"U+0170">>>>,
     <<"U+0173", <<"U+0172">>>>, <<"U+0175", <<"U+0174">>>>, <<"U+0177", <<"U+0176">>>>,
     <<"U+017A", <<"U+0179">>>>, <<"U+017C", <<"U+017B">>>>, <<"U+017E", <<"U+017D">>>>,
     <<"U+017F", <<"S">>>>, <<"U+0180", <<"U+0243">>>>, <<"U+0183", <<"U+0182">>>>,
     <<"U+0185", <<"U+0184">>>>, <<"U+0188", <<"U+0187">>>>, <<"U+018C", <<"U+018B">>>>,
     <<"U+0192", <<"U+0191">>>>, <<"U+0195", <<"U+01F6">>>>, <<"U+0199", <<"U+0198">>>>,
     <<"U+019A", <<"U+023D">>>>, <<"U+019B", <<"U+A7DC">>>>, <<"U+019E", <<"U+0220">>>>,
     <<"U+01A1", <<"U+01A0">>>>, <<"U+01A3", <<"U+01A2">>>>, <<"U+01A5", <<"U+01A4">>>>,
     <<"U+01A8", <<"U+01A7">>>>, <<"U+01AD", <<"U+01AC">>>>, <<"U+01B0", <<"U+01AF">>>>,
     <<"U+01B4", <<"U+01B3">>>>, <<"U+01B6", <<"U+01B5">>>>, <<"U+01B9", <<"U+01B8">>>>,
     <<"U+01BD", <<"U+01BC">>>>, <<"U+01BF", <<"U+01F7">>>>, <<"U+01C5", <<"U+01C4">>>>,
     <<"U+01C6", <<"U+01C4">>>>, <<"U+01C8", <<"U+01C7">>>>, <<"U+01C9", <<"U+01C7">>>>,
     <<"U+01CB", <<"U+01CA">>>>, <<"U+01CC", <<"U+01CA">>>>, <<"U+01CE", <<"U+01CD">>>>,
     <<"U+01D0", <<"U+01CF">>>>, <<"U+01D2", <<"U+01D1">>>>, <<"U+01D4", <<"U+01D3">>>>,
     <<"U+01D6", <<"U+01D5">>>>, <<"U+01D8", <<"U+01D7">>>>, <<"U+01DA", <<"U+01D9">>>>,
     <<"U+01DC", <<"U+01DB">>>>, <<"U+01DD", <<"U+018E">>>>, <<"U+01DF", <<"U+01DE">>>>,
     <<"U+01E1", <<"U+01E0">>>>, <<"U+01E3", <<"U+01E2">>>>, <<"U+01E5", <<"U+01E4">>>>,
     <<"U+01E7", <<"U+01E6">>>>, <<"U+01E9", <<"U+01E8">>>>, <<"U+01EB", <<"U+01EA">>>>,
     <<"U+01ED", <<"U+01EC">>>>, <<"U+01EF", <<"U+01EE">>>>, <<"U+01F0", <<"J", "U+030C">>>>,
     <<"U+01F2", <<"U+01F1">>>>, <<"U+01F3", <<"U+01F1">>>>, <<"U+01F5", <<"U+01F4">>>>,
     <<"U+01F9", <<"U+01F8">>>>, <<"U+01FB", <<"U+01FA">>>>, <<"U+01FD", <<"U+01FC">>>>,
     <<"U+01FF", <<"U+01FE">>>>, <<"U+0201", <<"U+0200">>>>, <<"U+0203", <<"U+0202">>>>,
     <<"U+0205", <<"U+0204">>>>, <<"U+0207", <<"U+0206">>>>, <<"U+0209", <<"U+0208">>>>,
     <<"U+020B", <<"U+020A">>>>, <<"U+020D", <<"U+020C">>>>, <<"U+020F", <<"U+020E">>>>,
     <<"U+0211", <<"U+0210">>>>, <<"U+0213", <<"U+0212">>>>, <<"U+0215", <<"U+0214">>>>,
     <<"U+0217", <<"U+0216">>>>, <<"U+0219", <<"U+0218">>>>, <<"U+021B", <<"U+021A">>>>,
     <<"U+021D", <<"U+021C">>>>, <<"U+021F", <<"U+021E">>>>, <<"U+0223", <<"U+0222">>>>,
     <<"U+0225", <<"U+0224">>>>, <<"U+0227", <<"U+0226">>>>, <<"U+0229", <<"U+0228">>>>,
     <<"U+022B", <<"U+022A">>>>, <<"U+022D", <<"U+022C">>>>, <<"U+022F", <<"U+022E">>>>,
     <<"U+0231", <<"U+0230">>>>, <<"U+0233", <<"U+0232">>>>, <<"U+023C", <<"U+023B">>>>,
     <<"U+023F", <<"U+2C7E">>>>, <<"U+0240", <<"U+2C7F">>>>, <<"U+0242", <<"U+0241">>>>,
     <<"U+0247", <<"U+0246">>>>, <<"U+0249", <<"U+0248">>>>, <<"U+024B", <<"U+024A">>>>,
     <<"U+024D", <<"U+024C">>>>, <<"U+024F", <<"U+024E">>>>, <<"U+0250", <<"U+2C6F">>>>,
     <<"U+0251", <<"U+2C6D">>>>, <<"U+0252", <<"U+2C70">>>>, <<"U+0253", <<"U+0181">>>>,
     <<"U+0254", <<"U+0186">>>>, <<"U+0256", <<"U+0189">>>>, <<"U+0257", <<"U+018A">>>>,
     <<"U+0259", <<"U+018F">>>>, <<"U+025B", <<"U+0190">>>>, <<"U+025C", <<"U+A7AB">>>>,
     <<"U+0260", <<"U+0193">>>>, <<"U+0261", <<"U+A7AC">>>>, <<"U+0263", <<"U+0194">>>>,
     <<"U+0264", <<"U+A7CB">>>>, <<"U+0265", <<"U+A78D">>>>, <<"U+0266", <<"U+A7AA">>>>,
     <<"U+0268", <<"U+0197">>>>, <<"U+0269", <<"U+0196">>>>, <<"U+026A", <<"U+A7AE">>>>,
     <<"U+026B", <<"U+2C62">>>>, <<"U+026C", <<"U+A7AD">>>>, <<"U+026F", <<"U+019C">>>>,
     <<"U+0271", <<"U+2C6E">>>>, <<"U+0272", <<"U+019D">>>>, <<"U+0275", <<"U+019F">>>>,
     <<"U+027D", <<"U+2C64">>>>, <<"U+0280", <<"U+01A6">>>>, <<"U+0282", <<"U+A7C5">>>>,
     <<"U+0283", <<"U+01A9">>>>, <<"U+0287", <<"U+A7B1">>>>, <<"U+0288", <<"U+01AE">>>>,
     <<"U+0289", <<"U+0244">>>>, <<"U+028A", <<"U+01B1">>>>, <<"U+028B", <<"U+01B2">>>>,
     <<"U+028C", <<"U+0245">>>>, <<"U+0292", <<"U+01B7">>>>, <<"U+029D", <<"U+A7B2">>>>,
     <<"U+029E", <<"U+A7B0">>>>, <<"U+0345", <<"U+0399">>>>, <<"U+0371", <<"U+0370">>>>,
     <<"U+0373", <<"U+0372">>>>, <<"U+0377", <<"U+0376">>>>, <<"U+037B", <<"U+03FD">>>>,
     <<"U+037C", <<"U+03FE">>>>, <<"U+037D", <<"U+03FF">>>>,
     <<"U+0390", <<"U+0399", "U+0308", "U+0301">>>>, <<"U+03AC", <<"U+0386">>>>,
     <<"U+03AD", <<"U+0388">>>>, <<"U+03AE", <<"U+0389">>>>, <<"U+03AF", <<"U+038A">>>>,
     <<"U+03B0", <<"U+03A5", "U+0308", "U+0301">>>>, <<"U+03B1", <<"U+0391">>>>,
     <<"U+03B2", <<"U+0392">>>>, <<"U+03B3", <<"U+0393">>>>, <<"U+03B4", <<"U+0394">>>>,
     <<"U+03B5", <<"U+0395">>>>, <<"U+03B6", <<"U+0396">>>>, <<"U+03B7", <<"U+0397">>>>,
     <<"U+03B8", <<"U+0398">>>>, <<"U+03B9", <<"U+0399">>>>, <<"U+03BA", <<"U+039A">>>>,
     <<"U+03BB", <<"U+039B">>>>, <<"U+03BC", <<"U+039C">>>>, <<"U+03BD", <<"U+039D">>>>,
     <<"U+03BE", <<"U+039E">>>>, <<"U+03BF", <<"U+039F">>>>, <<"U+03C0", <<"U+03A0">>>>,
     <<"U+03C1", <<"U+03A1">>>>, <<"U+03C2", <<"U+03A3">>>>, <<"U+03C3", <<"U+03A3">>>>,
     <<"U+03C4", <<"U+03A4">>>>, <<"U+03C5", <<"U+03A5">>>>, <<"U+03C6", <<"U+03A6">>>>,
     <<"U+03C7", <<"U+03A7">>>>, <<"U+03C8", <<"U+03A8">>>>, <<"U+03C9", <<"U+03A9">>>>,
     <<"U+03CA", <<"U+03AA">>>>, <<"U+03CB", <<"U+03AB">>>>, <<"U+03CC", <<"U+038C">>>>,
     <<"U+03CD", <<"U+038E">>>>, <<"U+03CE", <<"U+038F">>>>, <<"U+03D0", <<"U+0392">>>>,
     <<"U+03D1", <<"U+0398">>>>, <<"U+03D5", <<"U+03A6">>>>, <<"U+03D6", <<"U+03A0">>>>,
     <<"U+03D7", <<"U+03CF">>>>, <<"U+03D9", <<"U+03D8">>>>, <<"U+03DB", <<"U+03DA">>>>,
     <<"U+03DD", <<"U+03DC">>>>, <<"U+03DF", <<"U+03DE">>>>, <<"U+03E1", <<"U+03E0">>>>,
     <<"U+03E3", <<"U+03E2">>>>, <<"U+03E5", <<"U+03E4">>>>, <<"U+03E7", <<"U+03E6">>>>,
     <<"U+03E9", <<"U+03E8">>>>, <<"U+03EB", <<"U+03EA">>>>, <<"U+03ED", <<"U+03EC">>>>,
     <<"U+03EF", <<"U+03EE">>>>, <<"U+03F0", <<"U+039A">>>>, <<"U+03F1", <<"U+03A1">>>>,
     <<"U+03F2", <<"U+03F9">>>>, <<"U+03F3", <<"U+037F">>>>, <<"U+03F5", <<"U+0395">>>>,
     <<"U+03F8", <<"U+03F7">>>>, <<"U+03FB", <<"U+03FA">>>>, <<"U+0430", <<"U+0410">>>>,
     <<"U+0431", <<"U+0411">>>>, <<"U+0432", <<"U+0412">>>>, <<"U+0433", <<"U+0413">>>>,
     <<"U+0434", <<"U+0414">>>>, <<"U+0435", <<"U+0415">>>>, <<"U+0436", <<"U+0416">>>>,
     <<"U+0437", <<"U+0417">>>>, <<"U+0438", <<"U+0418">>>>, <<"U+0439", <<"U+0419">>>>,
     <<"U+043A", <<"U+041A">>>>, <<"U+043B", <<"U+041B">>>>, <<"U+043C", <<"U+041C">>>>,
     <<"U+043D", <<"U+041D">>>>, <<"U+043E", <<"U+041E">>>>, <<"U+043F", <<"U+041F">>>>,
     <<"U+0440", <<"U+0420">>>>, <<"U+0441", <<"U+0421">>>>, <<"U+0442", <<"U+0422">>>>,
     <<"U+0443", <<"U+0423">>>>, <<"U+0444", <<"U+0424">>>>, <<"U+0445", <<"U+0425">>>>,
     <<"U+0446", <<"U+0426">>>>, <<"U+0447", <<"U+0427">>>>, <<"U+0448", <<"U+0428">>>>,
     <<"U+0449", <<"U+0429">>>>, <<"U+044A", <<"U+042A">>>>, <<"U+044B", <<"U+042B">>>>,
     <<"U+044C", <<"U+042C">>>>, <<"U+044D", <<"U+042D">>>>, <<"U+044E", <<"U+042E">>>>,
     <<"U+044F", <<"U+042F">>>>, <<"U+0450", <<"U+0400">>>>, <<"U+0451", <<"U+0401">>>>,
     <<"U+0452", <<"U+0402">>>>, <<"U+0453", <<"U+0403">>>>, <<"U+0454", <<"U+0404">>>>,
     <<"U+0455", <<"U+0405">>>>, <<"U+0456", <<"U+0406">>>>, <<"U+0457", <<"U+0407">>>>,
     <<"U+0458", <<"U+0408">>>>, <<"U+0459", <<"U+0409">>>>, <<"U+045A", <<"U+040A">>>>,
     <<"U+045B", <<"U+040B">>>>, <<"U+045C", <<"U+040C">>>>, <<"U+045D", <<"U+040D">>>>,
     <<"U+045E", <<"U+040E">>>>, <<"U+045F", <<"U+040F">>>>, <<"U+0461", <<"U+0460">>>>,
     <<"U+0463", <<"U+0462">>>>, <<"U+0465", <<"U+0464">>>>, <<"U+0467", <<"U+0466">>>>,
     <<"U+0469", <<"U+0468">>>>, <<"U+046B", <<"U+046A">>>>, <<"U+046D", <<"U+046C">>>>,
     <<"U+046F", <<"U+046E">>>>, <<"U+0471", <<"U+0470">>>>, <<"U+0473", <<"U+0472">>>>,
     <<"U+0475", <<"U+0474">>>>, <<"U+0477", <<"U+0476">>>>, <<"U+0479", <<"U+0478">>>>,
     <<"U+047B", <<"U+047A">>>>, <<"U+047D", <<"U+047C">>>>, <<"U+047F", <<"U+047E">>>>,
     <<"U+0481", <<"U+0480">>>>, <<"U+048B", <<"U+048A">>>>, <<"U+048D", <<"U+048C">>>>,
     <<"U+048F", <<"U+048E">>>>, <<"U+0491", <<"U+0490">>>>, <<"U+0493", <<"U+0492">>>>,
     <<"U+0495", <<"U+0494">>>>, <<"U+0497", <<"U+0496">>>>, <<"U+0499", <<"U+0498">>>>,
     <<"U+049B", <<"U+049A">>>>, <<"U+049D", <<"U+049C">>>>, <<"U+049F", <<"U+049E">>>>,
     <<"U+04A1", <<"U+04A0">>>>, <<"U+04A3", <<"U+04A2">>>>, <<"U+04A5", <<"U+04A4">>>>,
     <<"U+04A7", <<"U+04A6">>>>, <<"U+04A9", <<"U+04A8">>>>, <<"U+04AB", <<"U+04AA">>>>,
     <<"U+04AD", <<"U+04AC">>>>, <<"U+04AF", <<"U+04AE">>>>, <<"U+04B1", <<"U+04B0">>>>,
     <<"U+04B3", <<"U+04B2">>>>, <<"U+04B5", <<"U+04B4">>>>, <<"U+04B7", <<"U+04B6">>>>,
     <<"U+04B9", <<"U+04B8">>>>, <<"U+04BB", <<"U+04BA">>>>, <<"U+04BD", <<"U+04BC">>>>,
     <<"U+04BF", <<"U+04BE">>>>, <<"U+04C2", <<"U+04C1">>>>, <<"U+04C4", <<"U+04C3">>>>,
     <<"U+04C6", <<"U+04C5">>>>, <<"U+04C8", <<"U+04C7">>>>, <<"U+04CA", <<"U+04C9">>>>,
     <<"U+04CC", <<"U+04CB">>>>, <<"U+04CE", <<"U+04CD">>>>, <<"U+04CF", <<"U+04C0">>>>,
     <<"U+04D1", <<"U+04D0">>>>, <<"U+04D3", <<"U+04D2">>>>, <<"U+04D5", <<"U+04D4">>>>,
     <<"U+04D7", <<"U+04D6">>>>, <<"U+04D9", <<"U+04D8">>>>, <<"U+04DB", <<"U+04DA">>>>,
     <<"U+04DD", <<"U+04DC">>>>, <<"U+04DF", <<"U+04DE">>>>, <<"U+04E1", <<"U+04E0">>>>,
     <<"U+04E3", <<"U+04E2">>>>, <<"U+04E5", <<"U+04E4">>>>, <<"U+04E7", <<"U+04E6">>>>,
     <<"U+04E9", <<"U+04E8">>>>, <<"U+04EB", <<"U+04EA">>>>, <<"U+04ED", <<"U+04EC">>>>,
     <<"U+04EF", <<"U+04EE">>>>, <<"U+04F1", <<"U+04F0">>>>, <<"U+04F3", <<"U+04F2">>>>,
     <<"U+04F5", <<"U+04F4">>>>, <<"U+04F7", <<"U+04F6">>>>, <<"U+04F9", <<"U+04F8">>>>,
     <<"U+04FB", <<"U+04FA">>>>, <<"U+04FD", <<"U+04FC">>>>, <<"U+04FF", <<"U+04FE">>>>,
     <<"U+0501", <<"U+0500">>>>, <<"U+0503", <<"U+0502">>>>, <<"U+0505", <<"U+0504">>>>,
     <<"U+0507", <<"U+0506">>>>, <<"U+0509", <<"U+0508">>>>, <<"U+050B", <<"U+050A">>>>,
     <<"U+050D", <<"U+050C">>>>, <<"U+050F", <<"U+050E">>>>, <<"U+0511", <<"U+0510">>>>,
     <<"U+0513", <<"U+0512">>>>, <<"U+0515", <<"U+0514">>>>, <<"U+0517", <<"U+0516">>>>,
     <<"U+0519", <<"U+0518">>>>, <<"U+051B", <<"U+051A">>>>, <<"U+051D", <<"U+051C">>>>,
     <<"U+051F", <<"U+051E">>>>, <<"U+0521", <<"U+0520">>>>, <<"U+0523", <<"U+0522">>>>,
     <<"U+0525", <<"U+0524">>>>, <<"U+0527", <<"U+0526">>>>, <<"U+0529", <<"U+0528">>>>,
     <<"U+052B", <<"U+052A">>>>, <<"U+052D", <<"U+052C">>>>, <<"U+052F", <<"U+052E">>>>,
     <<"U+0561", <<"U+0531">>>>, <<"U+0562", <<"U+0532">>>>, <<"U+0563", <<"U+0533">>>>,
     <<"U+0564", <<"U+0534">>>>, <<"U+0565", <<"U+0535">>>>, <<"U+0566", <<"U+0536">>>>,
     <<"U+0567", <<"U+0537">>>>, <<"U+0568", <<"U+0538">>>>, <<"U+0569", <<"U+0539">>>>,
     <<"U+056A", <<"U+053A">>>>, <<"U+056B", <<"U+053B">>>>, <<"U+056C", <<"U+053C">>>>,
     <<"U+056D", <<"U+053D">>>>, <<"U+056E", <<"U+053E">>>>, <<"U+056F", <<"U+053F">>>>,
     <<"U+0570", <<"U+0540">>>>, <<"U+0571", <<"U+0541">>>>, <<"U+0572", <<"U+0542">>>>,
     <<"U+0573", <<"U+0543">>>>, <<"U+0574", <<"U+0544">>>>, <<"U+0575", <<"U+0545">>>>,
     <<"U+0576", <<"U+0546">>>>, <<"U+0577", <<"U+0547">>>>, <<"U+0578", <<"U+0548">>>>,
     <<"U+0579", <<"U+0549">>>>, <<"U+057A", <<"U+054A">>>>, <<"U+057B", <<"U+054B">>>>,
     <<"U+057C", <<"U+054C">>>>, <<"U+057D", <<"U+054D">>>>, <<"U+057E", <<"U+054E">>>>,
     <<"U+057F", <<"U+054F">>>>, <<"U+0580", <<"U+0550">>>>, <<"U+0581", <<"U+0551">>>>,
     <<"U+0582", <<"U+0552">>>>, <<"U+0583", <<"U+0553">>>>, <<"U+0584", <<"U+0554">>>>,
     <<"U+0585", <<"U+0555">>>>, <<"U+0586", <<"U+0556">>>>, <<"U+0587", <<"U+0535", "U+0552">>>>,
     <<"U+10D0", <<"U+1C90">>>>, <<"U+10D1", <<"U+1C91">>>>, <<"U+10D2", <<"U+1C92">>>>,
     <<"U+10D3", <<"U+1C93">>>>, <<"U+10D4", <<"U+1C94">>>>, <<"U+10D5", <<"U+1C95">>>>,
     <<"U+10D6", <<"U+1C96">>>>, <<"U+10D7", <<"U+1C97">>>>, <<"U+10D8", <<"U+1C98">>>>,
     <<"U+10D9", <<"U+1C99">>>>, <<"U+10DA", <<"U+1C9A">>>>, <<"U+10DB", <<"U+1C9B">>>>,
     <<"U+10DC", <<"U+1C9C">>>>, <<"U+10DD", <<"U+1C9D">>>>, <<"U+10DE", <<"U+1C9E">>>>,
     <<"U+10DF", <<"U+1C9F">>>>, <<"U+10E0", <<"U+1CA0">>>>, <<"U+10E1", <<"U+1CA1">>>>,
     <<"U+10E2", <<"U+1CA2">>>>, <<"U+10E3", <<"U+1CA3">>>>, <<"U+10E4", <<"U+1CA4">>>>,
     <<"U+10E5", <<"U+1CA5">>>>, <<"U+10E6", <<"U+1CA6">>>>, <<"U+10E7", <<"U+1CA7">>>>,
     <<"U+10E8", <<"U+1CA8">>>>, <<"U+10E9", <<"U+1CA9">>>>, <<"U+10EA", <<"U+1CAA">>>>,
     <<"U+10EB", <<"U+1CAB">>>>, <<"U+10EC", <<"U+1CAC">>>>, <<"U+10ED", <<"U+1CAD">>>>,
     <<"U+10EE", <<"U+1CAE">>>>, <<"U+10EF", <<"U+1CAF">>>>, <<"U+10F0", <<"U+1CB0">>>>,
     <<"U+10F1", <<"U+1CB1">>>>, <<"U+10F2", <<"U+1CB2">>>>, <<"U+10F3", <<"U+1CB3">>>>,
     <<"U+10F4", <<"U+1CB4">>>>, <<"U+10F5", <<"U+1CB5">>>>, <<"U+10F6", <<"U+1CB6">>>>,
     <<"U+10F7", <<"U+1CB7">>>>, <<"U+10F8", <<"U+1CB8">>>>, <<"U+10F9", <<"U+1CB9">>>>,
     <<"U+10FA", <<"U+1CBA">>>>, <<"U+10FD", <<"U+1CBD">>>>, <<"U+10FE", <<"U+1CBE">>>>,
     <<"U+10FF", <<"U+1CBF">>>>, <<"U+13F8", <<"U+13F0">>>>, <<"U+13F9", <<"U+13F1">>>>,
     <<"U+13FA", <<"U+13F2">>>>, <<"U+13FB", <<"U+13F3">>>>, <<"U+13FC", <<"U+13F4">>>>,
     <<"U+13FD", <<"U+13F5">>>>, <<"U+1C80", <<"U+0412">>>>, <<"U+1C81", <<"U+0414">>>>,
     <<"U+1C82", <<"U+041E">>>>, <<"U+1C83", <<"U+0421">>>>, <<"U+1C84", <<"U+0422">>>>,
     <<"U+1C85", <<"U+0422">>>>, <<"U+1C86", <<"U+042A">>>>, <<"U+1C87", <<"U+0462">>>>,
     <<"U+1C88", <<"U+A64A">>>>, <<"U+1C8A", <<"U+1C89">>>>, <<"U+1D79", <<"U+A77D">>>>,
     <<"U+1D7D", <<"U+2C63">>>>, <<"U+1D8E", <<"U+A7C6">>>>, <<"U+1E01", <<"U+1E00">>>>,
     <<"U+1E03", <<"U+1E02">>>>, <<"U+1E05", <<"U+1E04">>>>, <<"U+1E07", <<"U+1E06">>>>,
     <<"U+1E09", <<"U+1E08">>>>, <<"U+1E0B", <<"U+1E0A">>>>, <<"U+1E0D", <<"U+1E0C">>>>,
     <<"U+1E0F", <<"U+1E0E">>>>, <<"U+1E11", <<"U+1E10">>>>, <<"U+1E13", <<"U+1E12">>>>,
     <<"U+1E15", <<"U+1E14">>>>, <<"U+1E17", <<"U+1E16">>>>, <<"U+1E19", <<"U+1E18">>>>,
     <<"U+1E1B", <<"U+1E1A">>>>, <<"U+1E1D", <<"U+1E1C">>>>, <<"U+1E1F", <<"U+1E1E">>>>,
     <<"U+1E21", <<"U+1E20">>>>, <<"U+1E23", <<"U+1E22">>>>, <<"U+1E25", <<"U+1E24">>>>,
     <<"U+1E27", <<"U+1E26">>>>, <<"U+1E29", <<"U+1E28">>>>, <<"U+1E2B", <<"U+1E2A">>>>,
     <<"U+1E2D", <<"U+1E2C">>>>, <<"U+1E2F", <<"U+1E2E">>>>, <<"U+1E31", <<"U+1E30">>>>,
     <<"U+1E33", <<"U+1E32">>>>, <<"U+1E35", <<"U+1E34">>>>, <<"U+1E37", <<"U+1E36">>>>,
     <<"U+1E39", <<"U+1E38">>>>, <<"U+1E3B", <<"U+1E3A">>>>, <<"U+1E3D", <<"U+1E3C">>>>,
     <<"U+1E3F", <<"U+1E3E">>>>, <<"U+1E41", <<"U+1E40">>>>, <<"U+1E43", <<"U+1E42">>>>,
     <<"U+1E45", <<"U+1E44">>>>, <<"U+1E47", <<"U+1E46">>>>, <<"U+1E49", <<"U+1E48">>>>,
     <<"U+1E4B", <<"U+1E4A">>>>, <<"U+1E4D", <<"U+1E4C">>>>, <<"U+1E4F", <<"U+1E4E">>>>,
     <<"U+1E51", <<"U+1E50">>>>, <<"U+1E53", <<"U+1E52">>>>, <<"U+1E55", <<"U+1E54">>>>,
     <<"U+1E57", <<"U+1E56">>>>, <<"U+1E59", <<"U+1E58">>>>, <<"U+1E5B", <<"U+1E5A">>>>,
     <<"U+1E5D", <<"U+1E5C">>>>, <<"U+1E5F", <<"U+1E5E">>>>, <<"U+1E61", <<"U+1E60">>>>,
     <<"U+1E63", <<"U+1E62">>>>, <<"U+1E65", <<"U+1E64">>>>, <<"U+1E67", <<"U+1E66">>>>,
     <<"U+1E69", <<"U+1E68">>>>, <<"U+1E6B", <<"U+1E6A">>>>, <<"U+1E6D", <<"U+1E6C">>>>,
     <<"U+1E6F", <<"U+1E6E">>>>, <<"U+1E71", <<"U+1E70">>>>, <<"U+1E73", <<"U+1E72">>>>,
     <<"U+1E75", <<"U+1E74">>>>, <<"U+1E77", <<"U+1E76">>>>, <<"U+1E79", <<"U+1E78">>>>,
     <<"U+1E7B", <<"U+1E7A">>>>, <<"U+1E7D", <<"U+1E7C">>>>, <<"U+1E7F", <<"U+1E7E">>>>,
     <<"U+1E81", <<"U+1E80">>>>, <<"U+1E83", <<"U+1E82">>>>, <<"U+1E85", <<"U+1E84">>>>,
     <<"U+1E87", <<"U+1E86">>>>, <<"U+1E89", <<"U+1E88">>>>, <<"U+1E8B", <<"U+1E8A">>>>,
     <<"U+1E8D", <<"U+1E8C">>>>, <<"U+1E8F", <<"U+1E8E">>>>, <<"U+1E91", <<"U+1E90">>>>,
     <<"U+1E93", <<"U+1E92">>>>, <<"U+1E95", <<"U+1E94">>>>, <<"U+1E96", <<"H", "U+0331">>>>,
     <<"U+1E97", <<"T", "U+0308">>>>, <<"U+1E98", <<"W", "U+030A">>>>,
     <<"U+1E99", <<"Y", "U+030A">>>>, <<"U+1E9A", <<"A", "U+02BE">>>>, <<"U+1E9B", <<"U+1E60">>>>,
     <<"U+1EA1", <<"U+1EA0">>>>, <<"U+1EA3", <<"U+1EA2">>>>, <<"U+1EA5", <<"U+1EA4">>>>,
     <<"U+1EA7", <<"U+1EA6">>>>, <<"U+1EA9", <<"U+1EA8">>>>, <<"U+1EAB", <<"U+1EAA">>>>,
     <<"U+1EAD", <<"U+1EAC">>>>, <<"U+1EAF", <<"U+1EAE">>>>, <<"U+1EB1", <<"U+1EB0">>>>,
     <<"U+1EB3", <<"U+1EB2">>>>, <<"U+1EB5", <<"U+1EB4">>>>, <<"U+1EB7", <<"U+1EB6">>>>,
     <<"U+1EB9", <<"U+1EB8">>>>, <<"U+1EBB", <<"U+1EBA">>>>, <<"U+1EBD", <<"U+1EBC">>>>,
     <<"U+1EBF", <<"U+1EBE">>>>, <<"U+1EC1", <<"U+1EC0">>>>, <<"U+1EC3", <<"U+1EC2">>>>,
     <<"U+1EC5", <<"U+1EC4">>>>, <<"U+1EC7", <<"U+1EC6">>>>, <<"U+1EC9", <<"U+1EC8">>>>,
     <<"U+1ECB", <<"U+1ECA">>>>, <<"U+1ECD", <<"U+1ECC">>>>, <<"U+1ECF", <<"U+1ECE">>>>,
     <<"U+1ED1", <<"U+1ED0">>>>, <<"U+1ED3", <<"U+1ED2">>>>, <<"U+1ED5", <<"U+1ED4">>>>,
     <<"U+1ED7", <<"U+1ED6">>>>, <<"U+1ED9", <<"U+1ED8">>>>, <<"U+1EDB", <<"U+1EDA">>>>,
     <<"U+1EDD", <<"U+1EDC">>>>, <<"U+1EDF", <<"U+1EDE">>>>, <<"U+1EE1", <<"U+1EE0">>>>,
     <<"U+1EE3", <<"U+1EE2">>>>, <<"U+1EE5", <<"U+1EE4">>>>, <<"U+1EE7", <<"U+1EE6">>>>,
     <<"U+1EE9", <<"U+1EE8">>>>, <<"U+1EEB", <<"U+1EEA">>>>, <<"U+1EED", <<"U+1EEC">>>>,
     <<"U+1EEF", <<"U+1EEE">>>>, <<"U+1EF1", <<"U+1EF0">>>>, <<"U+1EF3", <<"U+1EF2">>>>,
     <<"U+1EF5", <<"U+1EF4">>>>, <<"U+1EF7", <<"U+1EF6">>>>, <<"U+1EF9", <<"U+1EF8">>>>,
     <<"U+1EFB", <<"U+1EFA">>>>, <<"U+1EFD", <<"U+1EFC">>>>, <<"U+1EFF", <<"U+1EFE">>>>,
     <<"U+1F00", <<"U+1F08">>>>, <<"U+1F01", <<"U+1F09">>>>, <<"U+1F02", <<"U+1F0A">>>>,
     <<"U+1F03", <<"U+1F0B">>>>, <<"U+1F04", <<"U+1F0C">>>>, <<"U+1F05", <<"U+1F0D">>>>,
     <<"U+1F06", <<"U+1F0E">>>>, <<"U+1F07", <<"U+1F0F">>>>, <<"U+1F10", <<"U+1F18">>>>,
     <<"U+1F11", <<"U+1F19">>>>, <<"U+1F12", <<"U+1F1A">>>>, <<"U+1F13", <<"U+1F1B">>>>,
     <<"U+1F14", <<"U+1F1C">>>>, <<"U+1F15", <<"U+1F1D">>>>, <<"U+1F20", <<"U+1F28">>>>,
     <<"U+1F21", <<"U+1F29">>>>, <<"U+1F22", <<"U+1F2A">>>>, <<"U+1F23", <<"U+1F2B">>>>,
     <<"U+1F24", <<"U+1F2C">>>>, <<"U+1F25", <<"U+1F2D">>>>, <<"U+1F26", <<"U+1F2E">>>>,
     <<"U+1F27", <<"U+1F2F">>>>, <<"U+1F30", <<"U+1F38">>>>, <<"U+1F31", <<"U+1F39">>>>,
     <<"U+1F32", <<"U+1F3A">>>>, <<"U+1F33", <<"U+1F3B">>>>, <<"U+1F34", <<"U+1F3C">>>>,
     <<"U+1F35", <<"U+1F3D">>>>, <<"U+1F36", <<"U+1F3E">>>>, <<"U+1F37", <<"U+1F3F">>>>,
     <<"U+1F40", <<"U+1F48">>>>, <<"U+1F41", <<"U+1F49">>>>, <<"U+1F42", <<"U+1F4A">>>>,
     <<"U+1F43", <<"U+1F4B">>>>, <<"U+1F44", <<"U+1F4C">>>>, <<"U+1F45", <<"U+1F4D">>>>,
     <<"U+1F50", <<"U+03A5", "U+0313">>>>, <<"U+1F51", <<"U+1F59">>>>,
     <<"U+1F52", <<"U+03A5", "U+0313", "U+0300">>>>, <<"U+1F53", <<"U+1F5B">>>>,
     <<"U+1F54", <<"U+03A5", "U+0313", "U+0301">>>>, <<"U+1F55", <<"U+1F5D">>>>,
     <<"U+1F56", <<"U+03A5", "U+0313", "U+0342">>>>, <<"U+1F57", <<"U+1F5F">>>>,
     <<"U+1F60", <<"U+1F68">>>>, <<"U+1F61", <<"U+1F69">>>>, <<"U+1F62", <<"U+1F6A">>>>,
     <<"U+1F63", <<"U+1F6B">>>>, <<"U+1F64", <<"U+1F6C">>>>, <<"U+1F65", <<"U+1F6D">>>>,
     <<"U+1F66", <<"U+1F6E">>>>, <<"U+1F67", <<"U+1F6F">>>>, <<"U+1F70", <<"U+1FBA">>>>,
     <<"U+1F71", <<"U+1FBB">>>>, <<"U+1F72", <<"U+1FC8">>>>, <<"U+1F73", <<"U+1FC9">>>>,
     <<"U+1F74", <<"U+1FCA">>>>, <<"U+1F75", <<"U+1FCB">>>>, <<"U+1F76", <<"U+1FDA">>>>,
     <<"U+1F77", <<"U+1FDB">>>>, <<"U+1F78", <<"U+1FF8">>>>, <<"U+1F79", <<"U+1FF9">>>>,
     <<"U+1F7A", <<"U+1FEA">>>>, <<"U+1F7B", <<"U+1FEB">>>>, <<"U+1F7C", <<"U+1FFA">>>>,
     <<"U+1F7D", <<"U+1FFB">>>>, <<"U+1F80", <<"U+1F08", "U+0399">>>>,
     <<"U+1F81", <<"U+1F09", "U+0399">>>>, <<"U+1F82", <<"U+1F0A", "U+0399">>>>,
     <<"U+1F83", <<"U+1F0B", "U+0399">>>>, <<"U+1F84", <<"U+1F0C", "U+0399">>>>,
     <<"U+1F85", <<"U+1F0D", "U+0399">>>>, <<"U+1F86", <<"U+1F0E", "U+0399">>>>,
     <<"U+1F87", <<"U+1F0F", "U+0399">>>>, <<"U+1F88", <<"U+1F08", "U+0399">>>>,
     <<"U+1F89", <<"U+1F09", "U+0399">>>>, <<"U+1F8A", <<"U+1F0A", "U+0399">>>>,
     <<"U+1F8B", <<"U+1F0B", "U+0399">>>>, <<"U+1F8C", <<"U+1F0C", "U+0399">>>>,
     <<"U+1F8D", <<"U+1F0D", "U+0399">>>>, <<"U+1F8E", <<"U+1F0E", "U+0399">>>>,
     <<"U+1F8F", <<"U+1F0F", "U+0399">>>>, <<"U+1F90", <<"U+1F28", "U+0399">>>>,
     <<"U+1F91", <<"U+1F29", "U+0399">>>>, <<"U+1F92", <<"U+1F2A", "U+0399">>>>,
     <<"U+1F93", <<"U+1F2B", "U+0399">>>>, <<"U+1F94", <<"U+1F2C", "U+0399">>>>,
     <<"U+1F95", <<"U+1F2D", "U+0399">>>>, <<"U+1F96", <<"U+1F2E", "U+0399">>>>,
     <<"U+1F97", <<"U+1F2F", "U+0399">>>>, <<"U+1F98", <<"U+1F28", "U+0399">>>>,
     <<"U+1F99", <<"U+1F29", "U+0399">>>>, <<"U+1F9A", <<"U+1F2A", "U+0399">>>>,
     <<"U+1F9B", <<"U+1F2B", "U+0399">>>>, <<"U+1F9C", <<"U+1F2C", "U+0399">>>>,
     <<"U+1F9D", <<"U+1F2D", "U+0399">>>>, <<"U+1F9E", <<"U+1F2E", "U+0399">>>>,
     <<"U+1F9F", <<"U+1F2F", "U+0399">>>>, <<"U+1FA0", <<"U+1F68", "U+0399">>>>,
     <<"U+1FA1", <<"U+1F69", "U+0399">>>>, <<"U+1FA2", <<"U+1F6A", "U+0399">>>>,
     <<"U+1FA3", <<"U+1F6B", "U+0399">>>>, <<"U+1FA4", <<"U+1F6C", "U+0399">>>>,
     <<"U+1FA5", <<"U+1F6D", "U+0399">>>>, <<"U+1FA6", <<"U+1F6E", "U+0399">>>>,
     <<"U+1FA7", <<"U+1F6F", "U+0399">>>>, <<"U+1FA8", <<"U+1F68", "U+0399">>>>,
     <<"U+1FA9", <<"U+1F69", "U+0399">>>>, <<"U+1FAA", <<"U+1F6A", "U+0399">>>>,
     <<"U+1FAB", <<"U+1F6B", "U+0399">>>>, <<"U+1FAC", <<"U+1F6C", "U+0399">>>>,
     <<"U+1FAD", <<"U+1F6D", "U+0399">>>>, <<"U+1FAE", <<"U+1F6E", "U+0399">>>>,
     <<"U+1FAF", <<"U+1F6F", "U+0399">>>>, <<"U+1FB0", <<"U+1FB8">>>>, <<"U+1FB1", <<"U+1FB9">>>>,
     <<"U+1FB2", <<"U+1FBA", "U+0399">>>>, <<"U+1FB3", <<"U+0391", "U+0399">>>>,
     <<"U+1FB4", <<"U+0386", "U+0399">>>>, <<"U+1FB6", <<"U+0391", "U+0342">>>>,
     <<"U+1FB7", <<"U+0391", "U+0342", "U+0399">>>>, <<"U+1FBC", <<"U+0391", "U+0399">>>>,
     <<"U+1FBE", <<"U+0399">>>>, <<"U+1FC2", <<"U+1FCA", "U+0399">>>>,
     <<"U+1FC3", <<"U+0397", "U+0399">>>>, <<"U+1FC4", <<"U+0389", "U+0399">>>>,
     <<"U+1FC6", <<"U+0397", "U+0342">>>>, <<"U+1FC7", <<"U+0397", "U+0342", "U+0399">>>>,
     <<"U+1FCC", <<"U+0397", "U+0399">>>>, <<"U+1FD0", <<"U+1FD8">>>>, <<"U+1FD1", <<"U+1FD9">>>>,
     <<"U+1FD2", <<"U+0399", "U+0308", "U+0300">>>>,
     <<"U+1FD3", <<"U+0399", "U+0308", "U+0301">>>>, <<"U+1FD6", <<"U+0399", "U+0342">>>>,
     <<"U+1FD7", <<"U+0399", "U+0308", "U+0342">>>>, <<"U+1FE0", <<"U+1FE8">>>>,
     <<"U+1FE1", <<"U+1FE9">>>>, <<"U+1FE2", <<"U+03A5", "U+0308", "U+0300">>>>,
     <<"U+1FE3", <<"U+03A5", "U+0308", "U+0301">>>>, <<"U+1FE4", <<"U+03A1", "U+0313">>>>,
     <<"U+1FE5", <<"U+1FEC">>>>, <<"U+1FE6", <<"U+03A5", "U+0342">>>>,
     <<"U+1FE7", <<"U+03A5", "U+0308", "U+0342">>>>, <<"U+1FF2", <<"U+1FFA", "U+0399">>>>,
     <<"U+1FF3", <<"U+03A9", "U+0399">>>>, <<"U+1FF4", <<"U+038F", "U+0399">>>>,
     <<"U+1FF6", <<"U+03A9", "U+0342">>>>, <<"U+1FF7", <<"U+03A9", "U+0342", "U+0399">>>>,
     <<"U+1FFC", <<"U+03A9", "U+0399">>>>, <<"U+214E", <<"U+2132">>>>, <<"U+2170", <<"U+2160">>>>,
     <<"U+2171", <<"U+2161">>>>, <<"U+2172", <<"U+2162">>>>, <<"U+2173", <<"U+2163">>>>,
     <<"U+2174", <<"U+2164">>>>, <<"U+2175", <<"U+2165">>>>, <<"U+2176", <<"U+2166">>>>,
     <<"U+2177", <<"U+2167">>>>, <<"U+2178", <<"U+2168">>>>, <<"U+2179", <<"U+2169">>>>,
     <<"U+217A", <<"U+216A">>>>, <<"U+217B", <<"U+216B">>>>, <<"U+217C", <<"U+216C">>>>,
     <<"U+217D", <<"U+216D">>>>, <<"U+217E", <<"U+216E">>>>, <<"U+217F", <<"U+216F">>>>,
     <<"U+2184", <<"U+2183">>>>, <<"U+24D0", <<"U+24B6">>>>, <<"U+24D1", <<"U+24B7">>>>,
     <<"U+24D2", <<"U+24B8">>>>, <<"U+24D3", <<"U+24B9">>>>, <<"U+24D4", <<"U+24BA">>>>,
     <<"U+24D5", <<"U+24BB">>>>, <<"U+24D6", <<"U+24BC">>>>, <<"U+24D7", <<"U+24BD">>>>,
     <<"U+24D8", <<"U+24BE">>>>, <<"U+24D9", <<"U+24BF">>>>, <<"U+24DA", <<"U+24C0">>>>,
     <<"U+24DB", <<"U+24C1">>>>, <<"U+24DC", <<"U+24C2">>>>, <<"U+24DD", <<"U+24C3">>>>,
     <<"U+24DE", <<"U+24C4">>>>, <<"U+24DF", <<"U+24C5">>>>, <<"U+24E0", <<"U+24C6">>>>,
     <<"U+24E1", <<"U+24C7">>>>, <<"U+24E2", <<"U+24C8">>>>, <<"U+24E3", <<"U+24C9">>>>,
     <<"U+24E4", <<"U+24CA">>>>, <<"U+24E5", <<"U+24CB">>>>, <<"U+24E6", <<"U+24CC">>>>,
     <<"U+24E7", <<"U+24CD">>>>, <<"U+24E8", <<"U+24CE">>>>, <<"U+24E9", <<"U+24CF">>>>,
     <<"U+2C30", <<"U+2C00">>>>, <<"U+2C31", <<"U+2C01">>>>, <<"U+2C32", <<"U+2C02">>>>,
     <<"U+2C33", <<"U+2C03">>>>, <<"U+2C34", <<"U+2C04">>>>, <<"U+2C35", <<"U+2C05">>>>,
     <<"U+2C36", <<"U+2C06">>>>, <<"U+2C37", <<"U+2C07">>>>, <<"U+2C38", <<"U+2C08">>>>,
     <<"U+2C39", <<"U+2C09">>>>, <<"U+2C3A", <<"U+2C0A">>>>, <<"U+2C3B", <<"U+2C0B">>>>,
     <<"U+2C3C", <<"U+2C0C">>>>, <<"U+2C3D", <<"U+2C0D">>>>, <<"U+2C3E", <<"U+2C0E">>>>,
     <<"U+2C3F", <<"U+2C0F">>>>, <<"U+2C40", <<"U+2C10">>>>, <<"U+2C41", <<"U+2C11">>>>,
     <<"U+2C42", <<"U+2C12">>>>, <<"U+2C43", <<"U+2C13">>>>, <<"U+2C44", <<"U+2C14">>>>,
     <<"U+2C45", <<"U+2C15">>>>, <<"U+2C46", <<"U+2C16">>>>, <<"U+2C47", <<"U+2C17">>>>,
     <<"U+2C48", <<"U+2C18">>>>, <<"U+2C49", <<"U+2C19">>>>, <<"U+2C4A", <<"U+2C1A">>>>,
     <<"U+2C4B", <<"U+2C1B">>>>, <<"U+2C4C", <<"U+2C1C">>>>, <<"U+2C4D", <<"U+2C1D">>>>,
     <<"U+2C4E", <<"U+2C1E">>>>, <<"U+2C4F", <<"U+2C1F">>>>, <<"U+2C50", <<"U+2C20">>>>,
     <<"U+2C51", <<"U+2C21">>>>, <<"U+2C52", <<"U+2C22">>>>, <<"U+2C53", <<"U+2C23">>>>,
     <<"U+2C54", <<"U+2C24">>>>, <<"U+2C55", <<"U+2C25">>>>, <<"U+2C56", <<"U+2C26">>>>,
     <<"U+2C57", <<"U+2C27">>>>, <<"U+2C58", <<"U+2C28">>>>, <<"U+2C59", <<"U+2C29">>>>,
     <<"U+2C5A", <<"U+2C2A">>>>, <<"U+2C5B", <<"U+2C2B">>>>, <<"U+2C5C", <<"U+2C2C">>>>,
     <<"U+2C5D", <<"U+2C2D">>>>, <<"U+2C5E", <<"U+2C2E">>>>, <<"U+2C5F", <<"U+2C2F">>>>,
     <<"U+2C61", <<"U+2C60">>>>, <<"U+2C65", <<"U+023A">>>>, <<"U+2C66", <<"U+023E">>>>,
     <<"U+2C68", <<"U+2C67">>>>, <<"U+2C6A", <<"U+2C69">>>>, <<"U+2C6C", <<"U+2C6B">>>>,
     <<"U+2C73", <<"U+2C72">>>>, <<"U+2C76", <<"U+2C75">>>>, <<"U+2C81", <<"U+2C80">>>>,
     <<"U+2C83", <<"U+2C82">>>>, <<"U+2C85", <<"U+2C84">>>>, <<"U+2C87", <<"U+2C86">>>>,
     <<"U+2C89", <<"U+2C88">>>>, <<"U+2C8B", <<"U+2C8A">>>>, <<"U+2C8D", <<"U+2C8C">>>>,
     <<"U+2C8F", <<"U+2C8E">>>>, <<"U+2C91", <<"U+2C90">>>>, <<"U+2C93", <<"U+2C92">>>>,
     <<"U+2C95", <<"U+2C94">>>>, <<"U+2C97", <<"U+2C96">>>>, <<"U+2C99", <<"U+2C98">>>>,
     <<"U+2C9B", <<"U+2C9A">>>>, <<"U+2C9D", <<"U+2C9C">>>>, <<"U+2C9F", <<"U+2C9E">>>>,
     <<"U+2CA1", <<"U+2CA0">>>>, <<"U+2CA3", <<"U+2CA2">>>>, <<"U+2CA5", <<"U+2CA4">>>>,
     <<"U+2CA7", <<"U+2CA6">>>>, <<"U+2CA9", <<"U+2CA8">>>>, <<"U+2CAB", <<"U+2CAA">>>>,
     <<"U+2CAD", <<"U+2CAC">>>>, <<"U+2CAF", <<"U+2CAE">>>>, <<"U+2CB1", <<"U+2CB0">>>>,
     <<"U+2CB3", <<"U+2CB2">>>>, <<"U+2CB5", <<"U+2CB4">>>>, <<"U+2CB7", <<"U+2CB6">>>>,
     <<"U+2CB9", <<"U+2CB8">>>>, <<"U+2CBB", <<"U+2CBA">>>>, <<"U+2CBD", <<"U+2CBC">>>>,
     <<"U+2CBF", <<"U+2CBE">>>>, <<"U+2CC1", <<"U+2CC0">>>>, <<"U+2CC3", <<"U+2CC2">>>>,
     <<"U+2CC5", <<"U+2CC4">>>>, <<"U+2CC7", <<"U+2CC6">>>>, <<"U+2CC9", <<"U+2CC8">>>>,
     <<"U+2CCB", <<"U+2CCA">>>>, <<"U+2CCD", <<"U+2CCC">>>>, <<"U+2CCF", <<"U+2CCE">>>>,
     <<"U+2CD1", <<"U+2CD0">>>>, <<"U+2CD3", <<"U+2CD2">>>>, <<"U+2CD5", <<"U+2CD4">>>>,
     <<"U+2CD7", <<"U+2CD6">>>>, <<"U+2CD9", <<"U+2CD8">>>>, <<"U+2CDB", <<"U+2CDA">>>>,
     <<"U+2CDD", <<"U+2CDC">>>>, <<"U+2CDF", <<"U+2CDE">>>>, <<"U+2CE1", <<"U+2CE0">>>>,
     <<"U+2CE3", <<"U+2CE2">>>>, <<"U+2CEC", <<"U+2CEB">>>>, <<"U+2CEE", <<"U+2CED">>>>,
     <<"U+2CF3", <<"U+2CF2">>>>, <<"U+2D00", <<"U+10A0">>>>, <<"U+2D01", <<"U+10A1">>>>,
     <<"U+2D02", <<"U+10A2">>>>, <<"U+2D03", <<"U+10A3">>>>, <<"U+2D04", <<"U+10A4">>>>,
     <<"U+2D05", <<"U+10A5">>>>, <<"U+2D06", <<"U+10A6">>>>, <<"U+2D07", <<"U+10A7">>>>,
     <<"U+2D08", <<"U+10A8">>>>, <<"U+2D09", <<"U+10A9">>>>, <<"U+2D0A", <<"U+10AA">>>>,
     <<"U+2D0B", <<"U+10AB">>>>, <<"U+2D0C", <<"U+10AC">>>>, <<"U+2D0D", <<"U+10AD">>>>,
     <<"U+2D0E", <<"U+10AE">>>>, <<"U+2D0F", <<"U+10AF">>>>, <<"U+2D10", <<"U+10B0">>>>,
     <<"U+2D11", <<"U+10B1">>>>, <<"U+2D12", <<"U+10B2">>>>, <<"U+2D13", <<"U+10B3">>>>,
     <<"U+2D14", <<"U+10B4">>>>, <<"U+2D15", <<"U+10B5">>>>, <<"U+2D16", <<"U+10B6">>>>,
     <<"U+2D17", <<"U+10B7">>>>, <<"U+2D18", <<"U+10B8">>>>, <<"U+2D19", <<"U+10B9">>>>,
     <<"U+2D1A", <<"U+10BA">>>>, <<"U+2D1B", <<"U+10BB">>>>, <<"U+2D1C", <<"U+10BC">>>>,
     <<"U+2D1D", <<"U+10BD">>>>, <<"U+2D1E", <<"U+10BE">>>>, <<"U+2D1F", <<"U+10BF">>>>,
     <<"U+2D20", <<"U+10C0">>>>, <<"U+2D21", <<"U+10C1">>>>, <<"U+2D22", <<"U+10C2">>>>,
     <<"U+2D23", <<"U+10C3">>>>, <<"U+2D24", <<"U+10C4">>>>, <<"U+2D25", <<"U+10C5">>>>,
     <<"U+2D27", <<"U+10C7">>>>, <<"U+2D2D", <<"U+10CD">>>>, <<"U+A641", <<"U+A640">>>>,
     <<"U+A643", <<"U+A642">>>>, <<"U+A645", <<"U+A644">>>>, <<"U+A647", <<"U+A646">>>>,
     <<"U+A649", <<"U+A648">>>>, <<"U+A64B", <<"U+A64A">>>>, <<"U+A64D", <<"U+A64C">>>>,
     <<"U+A64F", <<"U+A64E">>>>, <<"U+A651", <<"U+A650">>>>, <<"U+A653", <<"U+A652">>>>,
     <<"U+A655", <<"U+A654">>>>, <<"U+A657", <<"U+A656">>>>, <<"U+A659", <<"U+A658">>>>,
     <<"U+A65B", <<"U+A65A">>>>, <<"U+A65D", <<"U+A65C">>>>, <<"U+A65F", <<"U+A65E">>>>,
     <<"U+A661", <<"U+A660">>>>, <<"U+A663", <<"U+A662">>>>, <<"U+A665", <<"U+A664">>>>,
     <<"U+A667", <<"U+A666">>>>, <<"U+A669", <<"U+A668">>>>, <<"U+A66B", <<"U+A66A">>>>,
     <<"U+A66D", <<"U+A66C">>>>, <<"U+A681", <<"U+A680">>>>, <<"U+A683", <<"U+A682">>>>,
     <<"U+A685", <<"U+A684">>>>, <<"U+A687", <<"U+A686">>>>, <<"U+A689", <<"U+A688">>>>,
     <<"U+A68B", <<"U+A68A">>>>, <<"U+A68D", <<"U+A68C">>>>, <<"U+A68F", <<"U+A68E">>>>,
     <<"U+A691", <<"U+A690">>>>, <<"U+A693", <<"U+A692">>>>, <<"U+A695", <<"U+A694">>>>,
     <<"U+A697", <<"U+A696">>>>, <<"U+A699", <<"U+A698">>>>, <<"U+A69B", <<"U+A69A">>>>,
     <<"U+A723", <<"U+A722">>>>, <<"U+A725", <<"U+A724">>>>, <<"U+A727", <<"U+A726">>>>,
     <<"U+A729", <<"U+A728">>>>, <<"U+A72B", <<"U+A72A">>>>, <<"U+A72D", <<"U+A72C">>>>,
     <<"U+A72F", <<"U+A72E">>>>, <<"U+A733", <<"U+A732">>>>, <<"U+A735", <<"U+A734">>>>,
     <<"U+A737", <<"U+A736">>>>, <<"U+A739", <<"U+A738">>>>, <<"U+A73B", <<"U+A73A">>>>,
     <<"U+A73D", <<"U+A73C">>>>, <<"U+A73F", <<"U+A73E">>>>, <<"U+A741", <<"U+A740">>>>,
     <<"U+A743", <<"U+A742">>>>, <<"U+A745", <<"U+A744">>>>, <<"U+A747", <<"U+A746">>>>,
     <<"U+A749", <<"U+A748">>>>, <<"U+A74B", <<"U+A74A">>>>, <<"U+A74D", <<"U+A74C">>>>,
     <<"U+A74F", <<"U+A74E">>>>, <<"U+A751", <<"U+A750">>>>, <<"U+A753", <<"U+A752">>>>,
     <<"U+A755", <<"U+A754">>>>, <<"U+A757", <<"U+A756">>>>, <<"U+A759", <<"U+A758">>>>,
     <<"U+A75B", <<"U+A75A">>>>, <<"U+A75D", <<"U+A75C">>>>, <<"U+A75F", <<"U+A75E">>>>,
     <<"U+A761", <<"U+A760">>>>, <<"U+A763", <<"U+A762">>>>, <<"U+A765", <<"U+A764">>>>,
     <<"U+A767", <<"U+A766">>>>, <<"U+A769", <<"U+A768">>>>, <<"U+A76B", <<"U+A76A">>>>,
     <<"U+A76D", <<"U+A76C">>>>, <<"U+A76F", <<"U+A76E">>>>, <<"U+A77A", <<"U+A779">>>>,
     <<"U+A77C", <<"U+A77B">>>>, <<"U+A77F", <<"U+A77E">>>>, <<"U+A781", <<"U+A780">>>>,
     <<"U+A783", <<"U+A782">>>>, <<"U+A785", <<"U+A784">>>>, <<"U+A787", <<"U+A786">>>>,
     <<"U+A78C", <<"U+A78B">>>>, <<"U+A791", <<"U+A790">>>>, <<"U+A793", <<"U+A792">>>>,
     <<"U+A794", <<"U+A7C4">>>>, <<"U+A797", <<"U+A796">>>>, <<"U+A799", <<"U+A798">>>>,
     <<"U+A79B", <<"U+A79A">>>>, <<"U+A79D", <<"U+A79C">>>>, <<"U+A79F", <<"U+A79E">>>>,
     <<"U+A7A1", <<"U+A7A0">>>>, <<"U+A7A3", <<"U+A7A2">>>>, <<"U+A7A5", <<"U+A7A4">>>>,
     <<"U+A7A7", <<"U+A7A6">>>>, <<"U+A7A9", <<"U+A7A8">>>>, <<"U+A7B5", <<"U+A7B4">>>>,
     <<"U+A7B7", <<"U+A7B6">>>>, <<"U+A7B9", <<"U+A7B8">>>>, <<"U+A7BB", <<"U+A7BA">>>>,
     <<"U+A7BD", <<"U+A7BC">>>>, <<"U+A7BF", <<"U+A7BE">>>>, <<"U+A7C1", <<"U+A7C0">>>>,
     <<"U+A7C3", <<"U+A7C2">>>>, <<"U+A7C8", <<"U+A7C7">>>>, <<"U+A7CA", <<"U+A7C9">>>>,
     <<"U+A7CD", <<"U+A7CC">>>>, <<"U+A7CF", <<"U+A7CE">>>>, <<"U+A7D1", <<"U+A7D0">>>>,
     <<"U+A7D3", <<"U+A7D2">>>>, <<"U+A7D5", <<"U+A7D4">>>>, <<"U+A7D7", <<"U+A7D6">>>>,
     <<"U+A7D9", <<"U+A7D8">>>>, <<"U+A7DB", <<"U+A7DA">>>>, <<"U+A7F6", <<"U+A7F5">>>>,
     <<"U+AB53", <<"U+A7B3">>>>, <<"U+AB70", <<"U+13A0">>>>, <<"U+AB71", <<"U+13A1">>>>,
     <<"U+AB72", <<"U+13A2">>>>, <<"U+AB73", <<"U+13A3">>>>, <<"U+AB74", <<"U+13A4">>>>,
     <<"U+AB75", <<"U+13A5">>>>, <<"U+AB76", <<"U+13A6">>>>, <<"U+AB77", <<"U+13A7">>>>,
     <<"U+AB78", <<"U+13A8">>>>, <<"U+AB79", <<"U+13A9">>>>, <<"U+AB7A", <<"U+13AA">>>>,
     <<"U+AB7B", <<"U+13AB">>>>, <<"U+AB7C", <<"U+13AC">>>>, <<"U+AB7D", <<"U+13AD">>>>,
     <<"U+AB7E", <<"U+13AE">>>>, <<"U+AB7F", <<"U+13AF">>>>, <<"U+AB80", <<"U+13B0">>>>,
     <<"U+AB81", <<"U+13B1">>>>, <<"U+AB82", <<"U+13B2">>>>, <<"U+AB83", <<"U+13B3">>>>,
     <<"U+AB84", <<"U+13B4">>>>, <<"U+AB85", <<"U+13B5">>>>, <<"U+AB86", <<"U+13B6">>>>,
     <<"U+AB87", <<"U+13B7">>>>, <<"U+AB88", <<"U+13B8">>>>, <<"U+AB89", <<"U+13B9">>>>,
     <<"U+AB8A", <<"U+13BA">>>>, <<"U+AB8B", <<"U+13BB">>>>, <<"U+AB8C", <<"U+13BC">>>>,
     <<"U+AB8D", <<"U+13BD">>>>, <<"U+AB8E", <<"U+13BE">>>>, <<"U+AB8F", <<"U+13BF">>>>,
     <<"U+AB90", <<"U+13C0">>>>, <<"U+AB91", <<"U+13C1">>>>, <<"U+AB92", <<"U+13C2">>>>,
     <<"U+AB93", <<"U+13C3">>>>, <<"U+AB94", <<"U+13C4">>>>, <<"U+AB95", <<"U+13C5">>>>,
     <<"U+AB96", <<"U+13C6">>>>, <<"U+AB97", <<"U+13C7">>>>, <<"U+AB98", <<"U+13C8">>>>,
     <<"U+AB99", <<"U+13C9">>>>, <<"U+AB9A", <<"U+13CA">>>>, <<"U+AB9B", <<"U+13CB">>>>,
     <<"U+AB9C", <<"U+13CC">>>>, <<"U+AB9D", <<"U+13CD">>>>, <<"U+AB9E", <<"U+13CE">>>>,
     <<"U+AB9F", <<"U+13CF">>>>, <<"U+ABA0", <<"U+13D0">>>>, <<"U+ABA1", <<"U+13D1">>>>,
     <<"U+ABA2", <<"U+13D2">>>>, <<"U+ABA3", <<"U+13D3">>>>, <<"U+ABA4", <<"U+13D4">>>>,
     <<"U+ABA5", <<"U+13D5">>>>, <<"U+ABA6", <<"U+13D6">>>>, <<"U+ABA7", <<"U+13D7">>>>,
     <<"U+ABA8", <<"U+13D8">>>>, <<"U+ABA9", <<"U+13D9">>>>, <<"U+ABAA", <<"U+13DA">>>>,
     <<"U+ABAB", <<"U+13DB">>>>, <<"U+ABAC", <<"U+13DC">>>>, <<"U+ABAD", <<"U+13DD">>>>,
     <<"U+ABAE", <<"U+13DE">>>>, <<"U+ABAF", <<"U+13DF">>>>, <<"U+ABB0", <<"U+13E0">>>>,
     <<"U+ABB1", <<"U+13E1">>>>, <<"U+ABB2", <<"U+13E2">>>>, <<"U+ABB3", <<"U+13E3">>>>,
     <<"U+ABB4", <<"U+13E4">>>>, <<"U+ABB5", <<"U+13E5">>>>, <<"U+ABB6", <<"U+13E6">>>>,
     <<"U+ABB7", <<"U+13E7">>>>, <<"U+ABB8", <<"U+13E8">>>>, <<"U+ABB9", <<"U+13E9">>>>,
     <<"U+ABBA", <<"U+13EA">>>>, <<"U+ABBB", <<"U+13EB">>>>, <<"U+ABBC", <<"U+13EC">>>>,
     <<"U+ABBD", <<"U+13ED">>>>, <<"U+ABBE", <<"U+13EE">>>>, <<"U+ABBF", <<"U+13EF">>>>,
     <<"U+FB00", <<"F", "F">>>>, <<"U+FB01", <<"F", "I">>>>, <<"U+FB02", <<"F", "L">>>>,
     <<"U+FB03", <<"F", "F", "I">>>>, <<"U+FB04", <<"F", "F", "L">>>>, <<"U+FB05", <<"S", "T">>>>,
     <<"U+FB06", <<"S", "T">>>>, <<"U+FB13", <<"U+0544", "U+0546">>>>,
     <<"U+FB14", <<"U+0544", "U+0535">>>>, <<"U+FB15", <<"U+0544", "U+053B">>>>,
     <<"U+FB16", <<"U+054E", "U+0546">>>>, <<"U+FB17", <<"U+0544", "U+053D">>>>,
     <<"U+FF41", <<"U+FF21">>>>, <<"U+FF42", <<"U+FF22">>>>, <<"U+FF43", <<"U+FF23">>>>,
     <<"U+FF44", <<"U+FF24">>>>, <<"U+FF45", <<"U+FF25">>>>, <<"U+FF46", <<"U+FF26">>>>,
     <<"U+FF47", <<"U+FF27">>>>, <<"U+FF48", <<"U+FF28">>>>, <<"U+FF49", <<"U+FF29">>>>,
     <<"U+FF4A", <<"U+FF2A">>>>, <<"U+FF4B", <<"U+FF2B">>>>, <<"U+FF4C", <<"U+FF2C">>>>,
     <<"U+FF4D", <<"U+FF2D">>>>, <<"U+FF4E", <<"U+FF2E">>>>, <<"U+FF4F", <<"U+FF2F">>>>,
     <<"U+FF50", <<"U+FF30">>>>, <<"U+FF51", <<"U+FF31">>>>, <<"U+FF52", <<"U+FF32">>>>,
     <<"U+FF53", <<"U+FF33">>>>, <<"U+FF54", <<"U+FF34">>>>, <<"U+FF55", <<"U+FF35">>>>,
     <<"U+FF56", <<"U+FF36">>>>, <<"U+FF57", <<"U+FF37">>>>, <<"U+FF58", <<"U+FF38">>>>,
     <<"U+FF59", <<"U+FF39">>>>, <<"U+FF5A", <<"U+FF3A">>>>, <<"U+10428", <<"U+10400">>>>,
     <<"U+10429", <<"U+10401">>>>, <<"U+1042A", <<"U+10402">>>>, <<"U+1042B", <<"U+10403">>>>,
     <<"U+1042C", <<"U+10404">>>>, <<"U+1042D", <<"U+10405">>>>, <<"U+1042E", <<"U+10406">>>>,
     <<"U+1042F", <<"U+10407">>>>, <<"U+10430", <<"U+10408">>>>, <<"U+10431", <<"U+10409">>>>,
     <<"U+10432", <<"U+1040A">>>>, <<"U+10433", <<"U+1040B">>>>, <<"U+10434", <<"U+1040C">>>>,
     <<"U+10435", <<"U+1040D">>>>, <<"U+10436", <<"U+1040E">>>>, <<"U+10437", <<"U+1040F">>>>,
     <<"U+10438", <<"U+10410">>>>, <<"U+10439", <<"U+10411">>>>, <<"U+1043A", <<"U+10412">>>>,
     <<"U+1043B", <<"U+10413">>>>, <<"U+1043C", <<"U+10414">>>>, <<"U+1043D", <<"U+10415">>>>,
     <<"U+1043E", <<"U+10416">>>>, <<"U+1043F", <<"U+10417">>>>, <<"U+10440", <<"U+10418">>>>,
     <<"U+10441", <<"U+10419">>>>, <<"U+10442", <<"U+1041A">>>>, <<"U+10443", <<"U+1041B">>>>,
     <<"U+10444", <<"U+1041C">>>>, <<"U+10445", <<"U+1041D">>>>, <<"U+10446", <<"U+1041E">>>>,
     <<"U+10447", <<"U+1041F">>>>, <<"U+10448", <<"U+10420">>>>, <<"U+10449", <<"U+10421">>>>,
     <<"U+1044A", <<"U+10422">>>>, <<"U+1044B", <<"U+10423">>>>, <<"U+1044C", <<"U+10424">>>>,
     <<"U+1044D", <<"U+10425">>>>, <<"U+1044E", <<"U+10426">>>>, <<"U+1044F", <<"U+10427">>>>,
     <<"U+104D8", <<"U+104B0">>>>, <<"U+104D9", <<"U+104B1">>>>, <<"U+104DA", <<"U+104B2">>>>,
     <<"U+104DB", <<"U+104B3">>>>, <<"U+104DC", <<"U+104B4">>>>, <<"U+104DD", <<"U+104B5">>>>,
     <<"U+104DE", <<"U+104B6">>>>, <<"U+104DF", <<"U+104B7">>>>, <<"U+104E0", <<"U+104B8">>>>,
     <<"U+104E1", <<"U+104B9">>>>, <<"U+104E2", <<"U+104BA">>>>, <<"U+104E3", <<"U+104BB">>>>,
     <<"U+104E4", <<"U+104BC">>>>, <<"U+104E5", <<"U+104BD">>>>, <<"U+104E6", <<"U+104BE">>>>,
     <<"U+104E7", <<"U+104BF">>>>, <<"U+104E8", <<"U+104C0">>>>, <<"U+104E9", <<"U+104C1">>>>,
     <<"U+104EA", <<"U+104C2">>>>, <<"U+104EB", <<"U+104C3">>>>, <<"U+104EC", <<"U+104C4">>>>,
     <<"U+104ED", <<"U+104C5">>>>, <<"U+104EE", <<"U+104C6">>>>, <<"U+104EF", <<"U+104C7">>>>,
     <<"U+104F0", <<"U+104C8">>>>, <<"U+104F1", <<"U+104C9">>>>, <<"U+104F2", <<"U+104CA">>>>,
     <<"U+104F3", <<"U+104CB">>>>, <<"U+104F4", <<"U+104CC">>>>, <<"U+104F5", <<"U+104CD">>>>,
     <<"U+104F6", <<"U+104CE">>>>, <<"U+104F7", <<"U+104CF">>>>, <<"U+104F8", <<"U+104D0">>>>,
     <<"U+104F9", <<"U+104D1">>>>, <<"U+104FA", <<"U+104D2">>>>, <<"U+104FB", <<"U+104D3">>>>,
     <<"U+10597", <<"U+10570">>>>, <<"U+10598", <<"U+10571">>>>, <<"U+10599", <<"U+10572">>>>,
     <<"U+1059A", <<"U+10573">>>>, <<"U+1059B", <<"U+10574">>>>, <<"U+1059C", <<"U+10575">>>>,
     <<"U+1059D", <<"U+10576">>>>, <<"U+1059E", <<"U+10577">>>>, <<"U+1059F", <<"U+10578">>>>,
     <<"U+105A0", <<"U+10579">>>>, <<"U+105A1", <<"U+1057A">>>>, <<"U+105A3", <<"U+1057C">>>>,
     <<"U+105A4", <<"U+1057D">>>>, <<"U+105A5", <<"U+1057E">>>>, <<"U+105A6", <<"U+1057F">>>>,
     <<"U+105A7", <<"U+10580">>>>, <<"U+105A8", <<"U+10581">>>>, <<"U+105A9", <<"U+10582">>>>,
     <<"U+105AA", <<"U+10583">>>>, <<"U+105AB", <<"U+10584">>>>, <<"U+105AC", <<"U+10585">>>>,
     <<"U+105AD", <<"U+10586">>>>, <<"U+105AE", <<"U+10587">>>>, <<"U+105AF", <<"U+10588">>>>,
     <<"U+105B0", <<"U+10589">>>>, <<"U+105B1", <<"U+1058A">>>>, <<"U+105B3", <<"U+1058C">>>>,
     <<"U+105B4", <<"U+1058D">>>>, <<"U+105B5", <<"U+1058E">>>>, <<"U+105B6", <<"U+1058F">>>>,
     <<"U+105B7", <<"U+10590">>>>, <<"U+105B8", <<"U+10591">>>>, <<"U+105B9", <<"U+10592">>>>,
     <<"U+105BB", <<"U+10594">>>>, <<"U+105BC", <<"U+10595">>>>, <<"U+10CC0", <<"U+10C80">>>>,
     <<"U+10CC1", <<"U+10C81">>>>, <<"U+10CC2", <<"U+10C82">>>>, <<"U+10CC3", <<"U+10C83">>>>,
     <<"U+10CC4", <<"U+10C84">>>>, <<"U+10CC5", <<"U+10C85">>>>, <<"U+10CC6", <<"U+10C86">>>>,
     <<"U+10CC7", <<"U+10C87">>>>, <<"U+10CC8", <<"U+10C88">>>>, <<"U+10CC9", <<"U+10C89">>>>,
     <<"U+10CCA", <<"U+10C8A">>>>, <<"U+10CCB", <<"U+10C8B">>>>, <<"U+10CCC", <<"U+10C8C">>>>,
     <<"U+10CCD", <<"U+10C8D">>>>, <<"U+10CCE", <<"U+10C8E">>>>, <<"U+10CCF", <<"U+10C8F">>>>,
     <<"U+10CD0", <<"U+10C90">>>>, <<"U+10CD1", <<"U+10C91">>>>, <<"U+10CD2", <<"U+10C92">>>>,
     <<"U+10CD3", <<"U+10C93">>>>, <<"U+10CD4", <<"U+10C94">>>>, <<"U+10CD5", <<"U+10C95">>>>,
     <<"U+10CD6", <<"U+10C96">>>>, <<"U+10CD7", <<"U+10C97">>>>, <<"U+10CD8", <<"U+10C98">>>>,
     <<"U+10CD9", <<"U+10C99">>>>, <<"U+10CDA", <<"U+10C9A">>>>, <<"U+10CDB", <<"U+10C9B">>>>,
     <<"U+10CDC", <<"U+10C9C">>>>, <<"U+10CDD", <<"U+10C9D">>>>, <<"U+10CDE", <<"U+10C9E">>>>,
     <<"U+10CDF", <<"U+10C9F">>>>, <<"U+10CE0", <<"U+10CA0">>>>, <<"U+10CE1", <<"U+10CA1">>>>,
     <<"U+10CE2", <<"U+10CA2">>>>, <<"U+10CE3", <<"U+10CA3">>>>, <<"U+10CE4", <<"U+10CA4">>>>,
     <<"U+10CE5", <<"U+10CA5">>>>, <<"U+10CE6", <<"U+10CA6">>>>, <<"U+10CE7", <<"U+10CA7">>>>,
     <<"U+10CE8", <<"U+10CA8">>>>, <<"U+10CE9", <<"U+10CA9">>>>, <<"U+10CEA", <<"U+10CAA">>>>,
     <<"U+10CEB", <<"U+10CAB">>>>, <<"U+10CEC", <<"U+10CAC">>>>, <<"U+10CED", <<"U+10CAD">>>>,
     <<"U+10CEE", <<"U+10CAE">>>>, <<"U+10CEF", <<"U+10CAF">>>>, <<"U+10CF0", <<"U+10CB0">>>>,
     <<"U+10CF1", <<"U+10CB1">>>>, <<"U+10CF2", <<"U+10CB2">>>>, <<"U+10D70", <<"U+10D50">>>>,
     <<"U+10D71", <<"U+10D51">>>>, <<"U+10D72", <<"U+10D52">>>>, <<"U+10D73", <<"U+10D53">>>>,
     <<"U+10D74", <<"U+10D54">>>>, <<"U+10D75", <<"U+10D55">>>>, <<"U+10D76", <<"U+10D56">>>>,
     <<"U+10D77", <<"U+10D57">>>>, <<"U+10D78", <<"U+10D58">>>>, <<"U+10D79", <<"U+10D59">>>>,
     <<"U+10D7A", <<"U+10D5A">>>>, <<"U+10D7B", <<"U+10D5B">>>>, <<"U+10D7C", <<"U+10D5C">>>>,
     <<"U+10D7D", <<"U+10D5D">>>>, <<"U+10D7E", <<"U+10D5E">>>>, <<"U+10D7F", <<"U+10D5F">>>>,
     <<"U+10D80", <<"U+10D60">>>>, <<"U+10D81", <<"U+10D61">>>>, <<"U+10D82", <<"U+10D62">>>>,
     <<"U+10D83", <<"U+10D63">>>>, <<"U+10D84", <<"U+10D64">>>>, <<"U+10D85", <<"U+10D65">>>>,
     <<"U+118C0", <<"U+118A0">>>>, <<"U+118C1", <<"U+118A1">>>>, <<"U+118C2", <<"U+118A2">>>>,
     <<"U+118C3", <<"U+118A3">>>>, <<"U+118C4", <<"U+118A4">>>>, <<"U+118C5", <<"U+118A5">>>>,
     <<"U+118C6", <<"U+118A6">>>>, <<"U+118C7", <<"U+118A7">>>>, <<"U+118C8", <<"U+118A8">>>>,
     <<"U+118C9", <<"U+118A9">>>>, <<"U+118CA", <<"U+118AA">>>>, <<"U+118CB", <<"U+118AB">>>>,
     <<"U+118CC", <<"U+118AC">>>>, <<"U+118CD", <<"U+118AD">>>>, <<"U+118CE", <<"U+118AE">>>>,
     <<"U+118CF", <<"U+118AF">>>>, <<"U+118D0", <<"U+118B0">>>>, <<"U+118D1", <<"U+118B1">>>>,
     <<"U+118D2", <<"U+118B2">>>>, <<"U+118D3", <<"U+118B3">>>>, <<"U+118D4", <<"U+118B4">>>>,
     <<"U+118D5", <<"U+118B5">>>>, <<"U+118D6", <<"U+118B6">>>>, <<"U+118D7", <<"U+118B7">>>>,
     <<"U+118D8", <<"U+118B8">>>>, <<"U+118D9", <<"U+118B9">>>>, <<"U+118DA", <<"U+118BA">>>>,
     <<"U+118DB", <<"U+118BB">>>>, <<"U+118DC", <<"U+118BC">>>>, <<"U+118DD", <<"U+118BD">>>>,
     <<"U+118DE", <<"U+118BE">>>>, <<"U+118DF", <<"U+118BF">>>>, <<"U+16E60", <<"U+16E40">>>>,
     <<"U+16E61", <<"U+16E41">>>>, <<"U+16E62", <<"U+16E42">>>>, <<"U+16E63", <<"U+16E43">>>>,
     <<"U+16E64", <<"U+16E44">>>>, <<"U+16E65", <<"U+16E45">>>>, <<"U+16E66", <<"U+16E46">>>>,
     <<"U+16E67", <<"U+16E47">>>>, <<"U+16E68", <<"U+16E48">>>>, <<"U+16E69", <<"U+16E49">>>>,
     <<"U+16E6A", <<"U+16E4A">>>>, <<"U+16E6B", <<"U+16E4B">>>>, <<"U+16E6C", <<"U+16E4C">>>>,
     <<"U+16E6D", <<"U+16E4D">>>>, <<"U+16E6E", <<"U+16E4E">>>>, <<"U+16E6F", <<"U+16E4F">>>>,
     <<"U+16E70", <<"U+16E50">>>>, <<"U+16E71", <<"U+16E51">>>>, <<"U+16E72", <<"U+16E52">>>>,
     <<"U+16E73", <<"U+16E53">>>>, <<"U+16E74", <<"U+16E54">>>>, <<"U+16E75", <<"U+16E55">>>>,
     <<"U+16E76", <<"U+16E56">>>>, <<"U+16E77", <<"U+16E57">>>>, <<"U+16E78", <<"U+16E58">>>>,
     <<"U+16E79", <<"U+16E59">>>>, <<"U+16E7A", <<"U+16E5A">>>>, <<"U+16E7B", <<"U+16E5B">>>>,
     <<"U+16E7C", <<"U+16E5C">>>>, <<"U+16E7D", <<"U+16E5D">>>>, <<"U+16E7E", <<"U+16E5E">>>>,
     <<"U+16E7F", <<"U+16E5F">>>>, <<"U+16EBB", <<"U+16EA0">>>>, <<"U+16EBC", <<"U+16EA1">>>>,
     <<"U+16EBD", <<"U+16EA2">>>>, <<"U+16EBE", <<"U+16EA3">>>>, <<"U+16EBF", <<"U+16EA4">>>>,
     <<"U+16EC0", <<"U+16EA5">>>>, <<"U+16EC1", <<"U+16EA6">>>>, <<"U+16EC2", <<"U+16EA7">>>>,
     <<"U+16EC3", <<"U+16EA8">>>>, <<"U+16EC4", <<"U+16EA9">>>>, <<"U+16EC5", <<"U+16EAA">>>>,
     <<"U+16EC6", <<"U+16EAB">>>>, <<"U+16EC7", <<"U+16EAC">>>>, <<"U+16EC8", <<"U+16EAD">>>>,
     <<"U+16EC9", <<"U+16EAE">>>>, <<"U+16ECA", <<"U+16EAF">>>>, <<"U+16ECB", <<"U+16EB0">>>>,
     <<"U+16ECC", <<"U+16EB1">>>>, <<"U+16ECD", <<"U+16EB2">>>>, <<"U+16ECE", <<"U+16EB3">>>>,
     <<"U+16ECF", <<"U+16EB4">>>>, <<"U+16ED0", <<"U+16EB5">>>>, <<"U+16ED1", <<"U+16EB6">>>>,
     <<"U+16ED2", <<"U+16EB7">>>>, <<"U+16ED3", <<"U+16EB8">>>>, <<"U+1E922", <<"U+1E900">>>>,
     <<"U+1E923", <<"U+1E901">>>>, <<"U+1E924", <<"U+1E902">>>>, <<"U+1E925", <<"U+1E903">>>>,
     <<"U+1E926", <<"U+1E904">>>>, <<"U+1E927", <<"U+1E905">>>>, <<"U+1E928", <<"U+1E906">>>>,
     <<"U+1E929", <<"U+1E907">>>>, <<"U+1E92A", <<"U+1E908">>>>, <<"U+1E92B", <<"U+1E909">>>>,
     <<"U+1E92C", <<"U+1E90A">>>>, <<"U+1E92D", <<"U+1E90B">>>>, <<"U+1E92E", <<"U+1E90C">>>>,
     <<"U+1E92F", <<"U+1E90D">>>>, <<"U+1E930", <<"U+1E90E">>>>, <<"U+1E931", <<"U+1E90F">>>>,
     <<"U+1E932", <<"U+1E910">>>>, <<"U+1E933", <<"U+1E911">>>>, <<"U+1E934", <<"U+1E912">>>>,
     <<"U+1E935", <<"U+1E913">>>>, <<"U+1E936", <<"U+1E914">>>>, <<"U+1E937", <<"U+1E915">>>>,
     <<"U+1E938", <<"U+1E916">>>>, <<"U+1E939", <<"U+1E917">>>>, <<"U+1E93A", <<"U+1E918">>>>,
     <<"U+1E93B", <<"U+1E919">>>>, <<"U+1E93C", <<"U+1E91A">>>>, <<"U+1E93D", <<"U+1E91B">>>>,
     <<"U+1E93E", <<"U+1E91C">>>>, <<"U+1E93F", <<"U+1E91D">>>>, <<"U+1E940", <<"U+1E91E">>>>,
     <<"U+1E941", <<"U+1E91F">>>>, <<"U+1E942", <<"U+1E920">>>>, <<"U+1E943", <<"U+1E921">>>>
    }

\* core::unicode::conversions: the lowercase mapping of every character
\* outside ASCII that has one.
LOWERCASE_TABLE ==
    {
     <<"U+00C0", <<"U+00E0">>>>, <<"U+00C1", <<"U+00E1">>>>, <<"U+00C2", <<"U+00E2">>>>,
     <<"U+00C3", <<"U+00E3">>>>, <<"U+00C4", <<"U+00E4">>>>, <<"U+00C5", <<"U+00E5">>>>,
     <<"U+00C6", <<"U+00E6">>>>, <<"U+00C7", <<"U+00E7">>>>, <<"U+00C8", <<"U+00E8">>>>,
     <<"U+00C9", <<"U+00E9">>>>, <<"U+00CA", <<"U+00EA">>>>, <<"U+00CB", <<"U+00EB">>>>,
     <<"U+00CC", <<"U+00EC">>>>, <<"U+00CD", <<"U+00ED">>>>, <<"U+00CE", <<"U+00EE">>>>,
     <<"U+00CF", <<"U+00EF">>>>, <<"U+00D0", <<"U+00F0">>>>, <<"U+00D1", <<"U+00F1">>>>,
     <<"U+00D2", <<"U+00F2">>>>, <<"U+00D3", <<"U+00F3">>>>, <<"U+00D4", <<"U+00F4">>>>,
     <<"U+00D5", <<"U+00F5">>>>, <<"U+00D6", <<"U+00F6">>>>, <<"U+00D8", <<"U+00F8">>>>,
     <<"U+00D9", <<"U+00F9">>>>, <<"U+00DA", <<"U+00FA">>>>, <<"U+00DB", <<"U+00FB">>>>,
     <<"U+00DC", <<"U+00FC">>>>, <<"U+00DD", <<"U+00FD">>>>, <<"U+00DE", <<"U+00FE">>>>,
     <<"U+0100", <<"U+0101">>>>, <<"U+0102", <<"U+0103">>>>, <<"U+0104", <<"U+0105">>>>,
     <<"U+0106", <<"U+0107">>>>, <<"U+0108", <<"U+0109">>>>, <<"U+010A", <<"U+010B">>>>,
     <<"U+010C", <<"U+010D">>>>, <<"U+010E", <<"U+010F">>>>, <<"U+0110", <<"U+0111">>>>,
     <<"U+0112", <<"U+0113">>>>, <<"U+0114", <<"U+0115">>>>, <<"U+0116", <<"U+0117">>>>,
     <<"U+0118", <<"U+0119">>>>, <<"U+011A", <<"U+011B">>>>, <<"U+011C", <<"U+011D">>>>,
     <<"U+011E", <<"U+011F">>>>, <<"U+0120", <<"U+0121">>>>, <<"U+0122", <<"U+0123">>>>,
     <<"U+0124", <<"U+0125">>>>, <<"U+0126", <<"U+0127">>>>, <<"U+0128", <<"U+0129">>>>,
     <<"U+012A", <<"U+012B">>>>, <<"U+012C", <<"U+012D">>>>, <<"U+012E", <<"U+012F">>>>,
     <<"U+0130", <<"i", "U+0307">>>>, <<"U+0132", <<"U+0133">>>>, <<"U+0134", <<"U+0135">>>>,
     <<"U+0136", <<"U+0137">>>>, <<"U+0139", <<"U+013A">>>>, <<"U+013B", <<"U+013C">>>>,
     <<"U+013D", <<"U+013E">>>>, <<"U+013F", <<"U+0140">>>>, <<"U+0141", <<"U+0142">>>>,
     <<"U+0143", <<"U+0144">>>>, <<"U+0145", <<"U+0146">>>>, <<"U+0147", <<"U+0148">>>>,
     <<"U+014A", <<"U+014B">>>>, <<"U+014C", <<"U+014D">>>>, <<"U+014E", <<"U+014F">>>>,
     <<"U+0150", <<"U+0151">>>>, <<"U+0152", <<"U+0153">>>>, <<"U+0154", <<"U+0155">>>>,
     <<"U+0156", <<"U+0157">>>>, <<"U+0158", <<"U+0159">>>>, <<"U+015A", <<"U+015B">>>>,
     <<"U+015C", <<"U+015D">>>>, <<"U+015E", <<"U+015F">>>>, <<"U+0160", <<"U+0161">>>>,
     <<"U+0162", <<"U+0163">>>>, <<"U+0164", <<"U+0165">>>>, <<"U+0166", <<"U+0167">>>>,
     <<"U+0168", <<"U+0169">>>>, <<"U+016A", <<"U+016B">>>>, <<"U+016C", <<"U+016D">>>>,
     <<"U+016E", <<"U+016F">>>>, <<"U+0170", <<"U+0171">>>>, <<"U+0172", <<"U+0173">>>>,
     <<"U+0174", <<"U+0175">>>>, <<"U+0176", <<"U+0177">>>>, <<"U+0178", <<"U+00FF">>>>,
     <<"U+0179", <<"U+017A">>>>, <<"U+017B", <<"U+017C">>>>, <<"U+017D", <<"U+017E">>>>,
     <<"U+0181", <<"U+0253">>>>, <<"U+0182", <<"U+0183">>>>, <<"U+0184", <<"U+0185">>>>,
     <<"U+0186", <<"U+0254">>>>, <<"U+0187", <<"U+0188">>>>, <<"U+0189", <<"U+0256">>>>,
     <<"U+018A", <<"U+0257">>>>, <<"U+018B", <<"U+018C">>>>, <<"U+018E", <<"U+01DD">>>>,
     <<"U+018F", <<"U+0259">>>>, <<"U+0190", <<"U+025B">>>>, <<"U+0191", <<"U+0192">>>>,
     <<"U+0193", <<"U+0260">>>>, <<"U+0194", <<"U+0263">>>>, <<"U+0196", <<"U+0269">>>>,
     <<"U+0197", <<"U+0268">>>>, <<"U+0198", <<"U+0199">>>>, <<"U+019C", <<"U+026F">>>>,
     <<"U+019D", <<"U+0272">>>>, <<"U+019F", <<"U+0275">>>>, <<"U+01A0", <<"U+01A1">>>>,
     <<"U+01A2", <<"U+01A3">>>>, <<"U+01A4", <<"U+01A5">>>>, <<"U+01A6", <<"U+0280">>>>,
     <<"U+01A7", <<"U+01A8">>>>, <<"U+01A9", <<"U+0283">>>>, <<"U+01AC", <<"U+01AD">>>>,
     <<"U+01AE", <<"U+0288">>>>, <<"U+01AF", <<"U+01B0">>>>, <<"U+01B1", <<"U+028A">>>>,
     <<"U+01B2", <<"U+028B">>>>, <<"U+01B3", <<"U+01B4">>>>, <<"U+01B5", <<"U+01B6">>>>,
     <<"U+01B7", <<"U+0292">>>>, <<"U+01B8", <<"U+01B9">>>>, <<"U+01BC", <<"U+01BD">>>>,
     <<"U+01C4", <<"U+01C6">>>>, <<"U+01C5", <<"U+01C6">>>>, <<"U+01C7", <<"U+01C9">>>>,
     <<"U+01C8", <<"U+01C9">>>>, <<"U+01CA", <<"U+01CC">>>>, <<"U+01CB", <<"U+01CC">>>>,
     <<"U+01CD", <<"U+01CE">>>>, <<"U+01CF", <<"U+01D0">>>>, <<"U+01D1", <<"U+01D2">>>>,
     <<"U+01D3", <<"U+01D4">>>>, <<"U+01D5", <<"U+01D6">>>>, <<"U+01D7", <<"U+01D8">>>>,
     <<"U+01D9", <<"U+01DA">>>>, <<"U+01DB", <<"U+01DC">>>>, <<"U+01DE", <<"U+01DF">>>>,
     <<"U+01E0", <<"U+01E1">>>>, <<"U+01E2", <<"U+01E3">>>>, <<"U+01E4", <<"U+01E5">>>>,
     <<"U+01E6", <<"U+01E7">>>>, <<"U+01E8", <<"U+01E9">>>>, <<"U+01EA", <<"U+01EB">>>>,
     <<"U+01EC", <<"U+01ED">>>>, <<"U+01EE", <<"U+01EF">>>>, <<"U+01F1", <<"U+01F3">>>>,
     <<"U+01F2", <<"U+01F3">>>>, <<"U+01F4", <<"U+01F5">>>>, <<"U+01F6", <<"U+0195">>>>,
     <<"U+01F7", <<"U+01BF">>>>, <<"U+01F8", <<"U+01F9">>>>, <<"U+01FA", <<"U+01FB">>>>,
     <<"U+01FC", <<"U+01FD">>>>, <<"U+01FE", <<"U+01FF">>>>, <<"U+0200", <<"U+0201">>>>,
     <<"U+0202", <<"U+0203">>>>, <<"U+0204", <<"U+0205">>>>, <<"U+0206", <<"U+0207">>>>,
     <<"U+0208", <<"U+0209">>>>, <<"U+020A", <<"U+020B">>>>, <<"U+020C", <<"U+020D">>>>,
     <<"U+020E", <<"U+020F">>>>, <<"U+0210", <<"U+0211">>>>, <<"U+0212", <<"U+0213">>>>,
     <<"U+0214", <<"U+0215">>>>, <<"U+0216", <<"U+0217">>>>, <<"U+0218", <<"U+0219">>>>,
     <<"U+021A", <<"U+021B">>>>, <<"U+021C", <<"U+021D">>>>, <<"U+021E", <<"U+021F">>>>,
     <<"U+0220", <<"U+019E">>>>, <<"U+0222", <<"U+0223">>>>, <<"U+0224", <<"U+0225">>>>,
     <<"U+0226", <<"U+0227">>>>, <<"U+0228", <<"U+0229">>>>, <<"U+022A", <<"U+022B">>>>,
     <<"U+022C", <<"U+022D">>>>, <<"U+022E", <<"U+022F">>>>, <<"U+0230", <<"U+0231">>>>,
     <<"U+0232", <<"U+0233">>>>, <<"U+023A", <<"U+2C65">>>>, <<"U+023B", <<"U+023C">>>>,
     <<"U+023D", <<"U+019A">>>>, <<"U+023E", <<"U+2C66">>>>, <<"U+0241", <<"U+0242">>>>,
     <<"U+0243", <<"U+0180">>>>, <<"U+0244", <<"U+0289">>>>, <<"U+0245", <<"U+028C">>>>,
     <<"U+0246", <<"U+0247">>>>, <<"U+0248", <<"U+0249">>>>, <<"U+024A", <<"U+024B">>>>,
     <<"U+024C", <<"U+024D">>>>, <<"U+024E", <<"U+024F">>>>, <<"U+0370", <<"U+0371">>>>,
     <<"U+0372", <<"U+0373">>>>, <<"U+0376", <<"U+0377">>>>, <<"U+037F", <<"U+03F3">>>>,
     <<"U+0386", <<"U+03AC">>>>, <<"U+0388", <<"U+03AD">>>>, <<"U+0389", <<"U+03AE">>>>,
     <<"U+038A", <<"U+03AF">>>>, <<"U+038C", <<"U+03CC">>>>, <<"U+038E", <<"U+03CD">>>>,
     <<"U+038F", <<"U+03CE">>>>, <<"U+0391", <<"U+03B1">>>>, <<"U+0392", <<"U+03B2">>>>,
     <<"U+0393", <<"U+03B3">>>>, <<"U+0394", <<"U+03B4">>>>, <<"U+0395", <<"U+03B5">>>>,
     <<"U+0396", <<"U+03B6">>>>, <<"U+0397", <<"U+03B7">>>>, <<"U+0398", <<"U+03B8">>>>,
     <<"U+0399", <<"U+03B9">>>>, <<"U+039A", <<"U+03BA">>>>, <<"U+039B", <<"U+03BB">>>>,
     <<"U+039C", <<"U+03BC">>>>, <<"U+039D", <<"U+03BD">>>>, <<"U+039E", <<"U+03BE">>>>,
     <<"U+039F", <<"U+03BF">>>>, <<"U+03A0", <<"U+03C0">>>>, <<"U+03A1", <<"U+03C1">>>>,
     <<"U+03A3", <<"U+03C3">>>>, <<"U+03A4", <<"U+03C4">>>>, <<"U+03A5", <<"U+03C5">>>>,
     <<"U+03A6", <<"U+03C6">>>>, <<"U+03A7", <<"U+03C7">>>>, <<"U+03A8", <<"U+03C8">>>>,
     <<"U+03A9", <<"U+03C9">>>>, <<"U+03AA", <<"U+03CA">>>>, <<"U+03AB", <<"U+03CB">>>>,
     <<"U+03CF", <<"U+03D7">>>>, <<"U+03D8", <<"U+03D9">>>>, <<"U+03DA", <<"U+03DB">>>>,
     <<"U+03DC", <<"U+03DD">>>>, <<"U+03DE", <<"U+03DF">>>>, <<"U+03E0", <<"U+03E1">>>>,
     <<"U+03E2", <<"U+03E3">>>>, <<"U+03E4", <<"U+03E5">>>>, <<"U+03E6", <<"U+03E7">>>>,
     <<"U+03E8", <<"U+03E9">>>>, <<"U+03EA", <<"U+03EB">>>>, <<"U+03EC", <<"U+03ED">>>>,
     <<"U+03EE", <<"U+03EF">>>>, <<"U+03F4", <<"U+03B8">>>>, <<"U+03F7", <<"U+03F8">>>>,
     <<"U+03F9", <<"U+03F2">>>>, <<"U+03FA", <<"U+03FB">>>>, <<"U+03FD", <<"U+037B">>>>,
     <<"U+03FE", <<"U+037C">>>>, <<"U+03FF", <<"U+037D">>>>, <<"U+0400", <<"U+0450">>>>,
     <<"U+0401", <<"U+0451">>>>, <<"U+0402", <<"U+0452">>>>, <<"U+0403", <<"U+0453">>>>,
     <<"U+0404", <<"U+0454">>>>, <<"U+0405", <<"U+0455">>>>, <<"U+0406", <<"U+0456">>>>,
     <<"U+0407", <<"U+0457">>>>, <<"U+0408", <<"U+0458">>>>, <<"U+0409", <<"U+0459">>>>,
     <<"U+040A", <<"U+045A">>>>, <<"U+040B", <<"U+045B">>>>, <<"U+040C", <<"U+045C">>>>,
     <<"U+040D", <<"U+045D">>>>, <<"U+040E", <<"U+045E">>>>, <<"U+040F", <<"U+045F">>>>,
     <<"U+0410", <<"U+0430">>>>, <<"U+0411", <<"U+0431">>>>, <<"U+0412", <<"U+0432">>>>,
     <<"U+0413", <<"U+0433">>>>, <<"U+0414", <<"U+0434">>>>, <<"U+0415", <<"U+0435">>>>,
     <<"U+0416", <<"U+0436">>>>, <<"U+0417", <<"U+0437">>>>, <<"U+0418", <<"U+0438">>>>,
     <<"U+0419", <<"U+0439">>>>, <<"U+041A", <<"U+043A">>>>, <<"U+041B", <<"U+043B">>>>,
     <<"U+041C", <<"U+043C">>>>, <<"U+041D", <<"U+043D">>>>, <<"U+041E", <<"U+043E">>>>,
     <<"U+041F", <<"U+043F">>>>, <<"U+0420", <<"U+0440">>>>, <<"U+0421", <<"U+0441">>>>,
     <<"U+0422", <<"U+0442">>>>, <<"U+0423", <<"U+0443">>>>, <<"U+0424", <<"U+0444">>>>,
     <<"U+0425", <<"U+0445">>>>, <<"U+0426", <<"U+0446">>>>, <<"U+0427", <<"U+0447">>>>,
     <<"U+0428", <<"U+0448">>>>, <<"U+0429", <<"U+0449">>>>, <<"U+042A", <<"U+044A">>>>,
     <<"U+042B", <<"U+044B">>>>, <<"U+042C", <<"U+044C">>>>, <<"U+042D", <<"U+044D">>>>,
     <<"U+042E", <<"U+044E">>>>, <<"U+042F", <<"U+044F">>>>, <<"U+0460", <<"U+0461">>>>,
     <<"U+0462", <<"U+0463">>>>, <<"U+0464", <<"U+0465">>>>, <<"U+0466", <<"U+0467">>>>,
     <<"U+0468", <<"U+0469">>>>, <<"U+046A", <<"U+046B">>>>, <<"U+046C", <<"U+046D">>>>,
     <<"U+046E", <<"U+046F">>>>, <<"U+0470", <<"U+0471">>>>, <<"U+0472", <<"U+0473">>>>,
     <<"U+0474", <<"U+0475">>>>, <<"U+0476", <<"U+0477">>>>, <<"U+0478", <<"U+0479">>>>,
     <<"U+047A", <<"U+047B">>>>, <<"U+047C", <<"U+047D">>>>, <<"U+047E", <<"U+047F">>>>,
     <<"U+0480", <<"U+0481">>>>, <<"U+048A", <<"U+048B">>>>, <<"U+048C", <<"U+048D">>>>,
     <<"U+048E", <<"U+048F">>>>, <<"U+0490", <<"U+0491">>>>, <<"U+0492", <<"U+0493">>>>,
     <<"U+0494", <<"U+0495">>>>, <<"U+0496", <<"U+0497">>>>, <<"U+0498", <<"U+0499">>>>,
     <<"U+049A", <<"U+049B">>>>, <<"U+049C", <<"U+049D">>>>, <<"U+049E", <<"U+049F">>>>,
     <<"U+04A0", <<"U+04A1">>>>, <<"U+04A2", <<"U+04A3">>>>, <<"U+04A4", <<"U+04A5">>>>,
     <<"U+04A6", <<"U+04A7">>>>, <<"U+04A8", <<"U+04A9">>>>, <<"U+04AA", <<"U+04AB">>>>,
     <<"U+04AC", <<"U+04AD">>>>, <<"U+04AE", <<"U+04AF">>>>, <<"U+04B0", <<"U+04B1">>>>,
     <<"U+04B2", <<"U+04B3">>>>, <<"U+04B4", <<"U+04B5">>>>, <<"U+04B6", <<"U+04B7">>>>,
     <<"U+04B8", <<"U+04B9">>>>, <<"U+04BA", <<"U+04BB">>>>, <<"U+04BC", <<"U+04BD">>>>,
     <<"U+04BE", <<"U+04BF">>>>, <<"U+04C0", <<"U+04CF">>>>, <<"U+04C1", <<"U+04C2">>>>,
     <<"U+04C3", <<"U+04C4">>>>, <<"U+04C5", <<"U+04C6">>>>, <<"U+04C7", <<"U+04C8">>>>,
     <<"U+04C9", <<"U+04CA">>>>, <<"U+04CB", <<"U+04CC">>>>, <<"U+04CD", <<"U+04CE">>>>,
     <<"U+04D0", <<"U+04D1">>>>, <<"U+04D2", <<"U+04D3">>>>, <<"U+04D4", <<"U+04D5">>>>,
     <<"U+04D6", <<"U+04D7">>>>, <<"U+04D8", <<"U+04D9">>>>, <<"U+04DA", <<"U+04DB">>>>,
     <<"U+04DC", <<"U+04DD">>>>, <<"U+04DE", <<"U+04DF">>>>, <<"U+04E0", <<"U+04E1">>>>,
     <<"U+04E2", <<"U+04E3">>>>, <<"U+04E4", <<"U+04E5">>>>, <<"U+04E6", <<"U+04E7">>>>,
     <<"U+04E8", <<"U+04E9">>>>, <<"U+04EA", <<"U+04EB">>>>, <<"U+04EC", <<"U+04ED">>>>,
     <<"U+04EE", <<"U+04EF">>>>, <<"U+04F0", <<"U+04F1">>>>, <<"U+04F2", <<"U+04F3">>>>,
     <<"U+04F4", <<"U+04F5">>>>, <<"U+04F6", <<"U+04F7">>>>, <<"U+04F8", <<"U+04F9">>>>,
     <<"U+04FA", <<"U+04FB">>>>, <<"U+04FC", <<"U+04FD">>>>, <<"U+04FE", <<"U+04FF">>>>,
     <<"U+0500", <<"U+0501">>>>, <<"U+0502", <<"U+0503">>>>, <<"U+0504", <<"U+0505">>>>,
     <<"U+0506", <<"U+0507">>>>, <<"U+0508", <<"U+0509">>>>, <<"U+050A", <<"U+050B">>>>,
     <<"U+050C", <<"U+050D">>>>, <<"U+050E", <<"U+050F">>>>, <<"U+0510", <<"U+0511">>>>,
     <<"U+0512", <<"U+0513">>>>, <<"U+0514", <<"U+0515">>>>, <<"U+0516", <<"U+0517">>>>,
     <<"U+0518", <<"U+0519">>>>, <<"U+051A", <<"U+051B">>>>, <<"U+051C", <<"U+051D">>>>,
     <<"U+051E", <<"U+051F">>>>, <<"U+0520", <<"U+0521">>>>, <<"U+0522", <<"U+0523">>>>,
     <<"U+0524", <<"U+0525">>>>, <<"U+0526", <<"U+0527">>>>, <<"U+0528", <<"U+0529">>>>,
     <<"U+052A", <<"U+052B">>>>, <<"U+052C", <<"U+052D">>>>, <<"U+052E", <<"U+052F">>>>,
     <<"U+0531", <<"U+0561">>>>, <<"U+0532", <<"U+0562">>>>, <<"U+0533", <<"U+0563">>>>,
     <<"U+0534", <<"U+0564">>>>, <<"U+0535", <<"U+0565">>>>, <<"U+0536", <<"U+0566">>>>,
     <<"U+0537", <<"U+0567">>>>, <<"U+0538", <<"U+0568">>>>, <<"U+0539", <<"U+0569">>>>,
     <<"U+053A", <<"U+056A">>>>, <<"U+053B", <<"U+056B">>>>, <<"U+053C", <<"U+056C">>>>,
     <<"U+053D", <<"U+056D">>>>, <<"U+053E", <<"U+056E">>>>, <<"U+053F", <<"U+056F">>>>,
     <<"U+0540", <<"U+0570">>>>, <<"U+0541", <<"U+0571">>>>, <<"U+0542", <<"U+0572">>>>,
     <<"U+0543", <<"U+0573">>>>, <<"U+0544", <<"U+0574">>>>, <<"U+0545", <<"U+0575">>>>,
     <<"U+0546", <<"U+0576">>>>, <<"U+0547", <<"U+0577">>>>, <<"U+0548", <<"U+0578">>>>,
     <<"U+0549", <<"U+0579">>>>, <<"U+054A", <<"U+057A">>>>, <<"U+054B", <<"U+057B">>>>,
     <<"U+054C", <<"U+057C">>>>, <<"U+054D", <<"U+057D">>>>, <<"U+054E", <<"U+057E">>>>,
     <<"U+054F", <<"U+057F">>>>, <<"U+0550", <<"U+0580">>>>, <<"U+0551", <<"U+0581">>>>,
     <<"U+0552", <<"U+0582">>>>, <<"U+0553", <<"U+0583">>>>, <<"U+0554", <<"U+0584">>>>,
     <<"U+0555", <<"U+0585">>>>, <<"U+0556", <<"U+0586">>>>, <<"U+10A0", <<"U+2D00">>>>,
     <<"U+10A1", <<"U+2D01">>>>, <<"U+10A2", <<"U+2D02">>>>, <<"U+10A3", <<"U+2D03">>>>,
     <<"U+10A4", <<"U+2D04">>>>, <<"U+10A5", <<"U+2D05">>>>, <<"U+10A6", <<"U+2D06">>>>,
     <<"U+10A7", <<"U+2D07">>>>, <<"U+10A8", <<"U+2D08">>>>, <<"U+10A9", <<"U+2D09">>>>,
     <<"U+10AA", <<"U+2D0A">>>>, <<"U+10AB", <<"U+2D0B">>>>, <<"U+10AC", <<"U+2D0C">>>>,
     <<"U+10AD", <<"U+2D0D">>>>, <<"U+10AE", <<"U+2D0E">>>>, <<"U+10AF", <<"U+2D0F">>>>,
     <<"U+10B0", <<"U+2D10">>>>, <<"U+10B1", <<"U+2D11">>>>, <<"U+10B2", <<"U+2D12">>>>,
     <<"U+10B3", <<"U+2D13">>>>, <<"U+10B4", <<"U+2D14">>>>, <<"U+10B5", <<"U+2D15">>>>,
     <<"U+10B6", <<"U+2D16">>>>, <<"U+10B7", <<"U+2D17">>>>, <<"U+10B8", <<"U+2D18">>>>,
     <<"U+10B9", <<"U+2D19">>>>, <<"U+10BA", <<"U+2D1A">>>>, <<"U+10BB", <<"U+2D1B">>>>,
     <<"U+10BC", <<"U+2D1C">>>>, <<"U+10BD", <<"U+2D1D">>>>, <<"U+10BE", <<"U+2D1E">>>>,
     <<"U+10BF", <<"U+2D1F">>>>, <<"U+10C0", <<"U+2D20">>>>, <<"U+10C1", <<"U+2D21">>>>,
     <<"U+10C2", <<"U+2D22">>>>, <<"U+10C3", <<"U+2D23">>>>, <<"U+10C4", <<"U+2D24">>>>,
     <<"U+10C5", <<"U+2D25">>>>, <<"U+10C7", <<"U+2D27">>>>, <<"U+10CD", <<"U+2D2D">>>>,
     <<"U+13A0", <<"U+AB70">>>>, <<"U+13A1", <<"U+AB71">>>>, <<"U+13A2", <<"U+AB72">>>>,
     <<"U+13A3", <<"U+AB73">>>>, <<"U+13A4", <<"U+AB74">>>>, <<"U+13A5", <<"U+AB75">>>>,
     <<"U+13A6", <<"U+AB76">>>>, <<"U+13A7", <<"U+AB77">>>>, <<"U+13A8", <<"U+AB78">>>>,
     <<"U+13A9", <<"U+AB79">>>>, <<"U+13AA", <<"U+AB7A">>>>, <<"U+13AB", <<"U+AB7B">>>>,
     <<"U+13AC", <<"U+AB7C">>>>, <<"U+13AD", <<"U+AB7D">>>>, <<"U+13AE", <<"U+AB7E">>>>,
     <<"U+13AF", <<"U+AB7F">>>>, <<"U+13B0", <<"U+AB80">>>>, <<"U+13B1", <<"U+AB81">>>>,
     <<"U+13B2", <<"U+AB82">>>>, <<"U+13B3", <<"U+AB83">>>>, <<"U+13B4", <<"U+AB84">>>>,
     <<"U+13B5", <<"U+AB85">>>>, <<"U+13B6", <<"U+AB86">>>>, <<"U+13B7", <<"U+AB87">>>>,
     <<"U+13B8", <<"U+AB88">>>>, <<"U+13B9", <<"U+AB89">>>>, <<"U+13BA", <<"U+AB8A">>>>,
     <<"U+13BB", <<"U+AB8B">>>>, <<"U+13BC", <<"U+AB8C">>>>, <<"U+13BD", <<"U+AB8D">>>>,
     <<"U+13BE", <<"U+AB8E">>>>, <<"U+13BF", <<"U+AB8F">>>>, <<"U+13C0", <<"U+AB90">>>>,
     <<"U+13C1", <<"U+AB91">>>>, <<"U+13C2", <<"U+AB92">>>>, <<"U+13C3", <<"U+AB93">>>>,
     <<"U+13C4", <<"U+AB94">>>>, <<"U+13C5", <<"U+AB95">>>>, <<"U+13C6", <<"U+AB96">>>>,
     <<"U+13C7", <<"U+AB97">>>>, <<"U+13C8", <<"U+AB98">>>>, <<"U+13C9", <<"U+AB99">>>>,
     <<"U+13CA", <<"U+AB9A">>>>, <<"U+13CB", <<"U+AB9B">>>>, <<"U+13CC", <<"U+AB9C">>>>,
     <<"U+13CD", <<"U+AB9D">>>>, <<"U+13CE", <<"U+AB9E">>>>, <<"U+13CF", <<"U+AB9F">>>>,
     <<"U+13D0", <<"U+ABA0">>>>, <<"U+13D1", <<"U+ABA1">>>>, <<"U+13D2", <<"U+ABA2">>>>,
     <<"U+13D3", <<"U+ABA3">>>>, <<"U+13D4", <<"U+ABA4">>>>, <<"U+13D5", <<"U+ABA5">>>>,
     <<"U+13D6", <<"U+ABA6">>>>, <<"U+13D7", <<"U+ABA7">>>>, <<"U+13D8", <<"U+ABA8">>>>,
     <<"U+13D9", <<"U+ABA9">>>>, <<"U+13DA", <<"U+ABAA">>>>, <<"U+13DB", <<"U+ABAB">>>>,
     <<"U+13DC", <<"U+ABAC">>>>, <<"U+13DD", <<"U+ABAD">>>>, <<"U+13DE", <<"U+ABAE">>>>,
     <<"U+13DF", <<"U+ABAF">>>>, <<"U+13E0", <<"U+ABB0">>>>, <<"U+13E1", <<"U+ABB1">>>>,
     <<"U+13E2", <<"U+ABB2">>>>, <<"U+13E3", <<"U+ABB3">>>>, <<"U+13E4", <<"U+ABB4">>>>,
     <<"U+13E5", <<"U+ABB5">>>>, <<"U+13E6", <<"U+ABB6">>>>, <<"U+13E7", <<"U+ABB7">>>>,
     <<"U+13E8", <<"U+ABB8">>>>, <<"U+13E9", <<"U+ABB9">>>>, <<"U+13EA", <<"U+ABBA">>>>,
     <<"U+13EB", <<"U+ABBB">>>>, <<"U+13EC", <<"U+ABBC">>>>, <<"U+13ED", <<"U+ABBD">>>>,
     <<"U+13EE", <<"U+ABBE">>>>, <<"U+13EF", <<"U+ABBF">>>>, <<"U+13F0", <<"U+13F8">>>>,
     <<"U+13F1", <<"U+13F9">>>>, <<"U+13F2", <<"U+13FA">>>>, <<"U+13F3", <<"U+13FB">>>>,
     <<"U+13F4", <<"U+13FC">>>>, <<"U+13F5", <<"U+13FD">>>>, <<"U+1C89", <<"U+1C8A">>>>,
     <<"U+1C90", <<"U+10D0">>>>, <<"U+1C91", <<"U+10D1">>>>, <<"U+1C92", <<"U+10D2">>>>,
     <<"U+1C93", <<"U+10D3">>>>, <<"U+1C94", <<"U+10D4">>>>, <<"U+1C95", <<"U+10D5">>>>,
     <<"U+1C96", <<"U+10D6">>>>, <<"U+1C97", <<"U+10D7">>>>, <<"U+1C98", <<"U+10D8">>>>,
     <<"U+1C99", <<"U+10D9">>>>, <<"U+1C9A", <<"U+10DA">>>>, <<"U+1C9B", <<"U+10DB">>>>,
     <<"U+1C9C", <<"U+10DC">>>>, <<"U+1C9D", <<"U+10DD">>>>, <<"U+1C9E", <<"U+10DE">>>>,
     <<"U+1C9F", <<"U+10DF">>>>, <<"U+1CA0", <<"U+10E0">>>>, <<"U+1CA1", <<"U+10E1">>>>,
     <<"U+1CA2", <<"U+10E2">>>>, <<"U+1CA3", <<"U+10E3">>>>, <<"U+1CA4", <<"U+10E4">>>>,
     <<"U+1CA5", <<"U+10E5">>>>, <<"U+1CA6", <<"U+10E6">>>>, <<"U+1CA7", <<"U+10E7">>>>,
     <<"U+1CA8", <<"U+10E8">>>>, <<"U+1CA9", <<"U+10E9">>>>, <<"U+1CAA", <<"U+10EA">>>>,
     <<"U+1CAB", <<"U+10EB">>>>, <<"U+1CAC", <<"U+10EC">>>>, <<"U+1CAD", <<"U+10ED">>>>,
     <<"U+1CAE", <<"U+10EE">>>>, <<"U+1CAF", <<"U+10EF">>>>, <<"U+1CB0", <<"U+10F0">>>>,
     <<"U+1CB1", <<"U+10F1">>>>, <<"U+1CB2", <<"U+10F2">>>>, <<"U+1CB3", <<"U+10F3">>>>,
     <<"U+1CB4", <<"U+10F4">>>>, <<"U+1CB5", <<"U+10F5">>>>, <<"U+1CB6", <<"U+10F6">>>>,
     <<"U+1CB7", <<"U+10F7">>>>, <<"U+1CB8", <<"U+10F8">>>>, <<"U+1CB9", <<"U+10F9">>>>,
     <<"U+1CBA", <<"U+10FA">>>>, <<"U+1CBD", <<"U+10FD">>>>, <<"U+1CBE", <<"U+10FE">>>>,
     <<"U+1CBF", <<"U+10FF">>>>, <<"U+1E00", <<"U+1E01">>>>, <<"U+1E02", <<"U+1E03">>>>,
     <<"U+1E04", <<"U+1E05">>>>, <<"U+1E06", <<"U+1E07">>>>, <<"U+1E08", <<"U+1E09">>>>,
     <<"U+1E0A", <<"U+1E0B">>>>, <<"U+1E0C", <<"U+1E0D">>>>, <<"U+1E0E", <<"U+1E0F">>>>,
     <<"U+1E10", <<"U+1E11">>>>, <<"U+1E12", <<"U+1E13">>>>, <<"U+1E14", <<"U+1E15">>>>,
     <<"U+1E16", <<"U+1E17">>>>, <<"U+1E18", <<"U+1E19">>>>, <<"U+1E1A", <<"U+1E1B">>>>,
     <<"U+1E1C", <<"U+1E1D">>>>, <<"U+1E1E", <<"U+1E1F">>>>, <<"U+1E20", <<"U+1E21">>>>,
     <<"U+1E22", <<"U+1E23">>>>, <<"U+1E24", <<"U+1E25">>>>, <<"U+1E26", <<"U+1E27">>>>,
     <<"U+1E28", <<"U+1E29">>>>, <<"U+1E2A", <<"U+1E2B">>>>, <<"U+1E2C", <<"U+1E2D">>>>,
     <<"U+1E2E", <<"U+1E2F">>>>, <<"U+1E30", <<"U+1E31">>>>, <<"U+1E32", <<"U+1E33">>>>,
     <<"U+1E34", <<"U+1E35">>>>, <<"U+1E36", <<"U+1E37">>>>, <<"U+1E38", <<"U+1E39">>>>,
     <<"U+1E3A", <<"U+1E3B">>>>, <<"U+1E3C", <<"U+1E3D">>>>, <<"U+1E3E", <<"U+1E3F">>>>,
     <<"U+1E40", <<"U+1E41">>>>, <<"U+1E42", <<"U+1E43">>>>, <<"U+1E44", <<"U+1E45">>>>,
     <<"U+1E46", <<"U+1E47">>>>, <<"U+1E48", <<"U+1E49">>>>, <<"U+1E4A", <<"U+1E4B">>>>,
     <<"U+1E4C", <<"U+1E4D">>>>, <<"U+1E4E", <<"U+1E4F">>>>, <<"U+1E50", <<"U+1E51">>>>,
     <<"U+1E52", <<"U+1E53">>>>, <<"U+1E54", <<"U+1E55">>>>, <<"U+1E56", <<"U+1E57">>>>,
     <<"U+1E58", <<"U+1E59">>>>, <<"U+1E5A", <<"U+1E5B">>>>, <<"U+1E5C", <<"U+1E5D">>>>,
     <<"U+1E5E", <<"U+1E5F">>>>, <<"U+1E60", <<"U+1E61">>>>, <<"U+1E62", <<"U+1E63">>>>,
     <<"U+1E64", <<"U+1E65">>>>, <<"U+1E66", <<"U+1E67">>>>, <<"U+1E68", <<"U+1E69">>>>,
     <<"U+1E6A", <<"U+1E6B">>>>, <<"U+1E6C", <<"U+1E6D">>>>, <<"U+1E6E", <<"U+1E6F">>>>,
     <<"U+1E70", <<"U+1E71">>>>, <<"U+1E72", <<"U+1E73">>>>, <<"U+1E74", <<"U+1E75">>>>,
     <<"U+1E76", <<"U+1E77">>>>, <<"U+1E78", <<"U+1E79">>>>, <<"U+1E7A", <<"U+1E7B">>>>,
     <<"U+1E7C", <<"U+1E7D">>>>, <<"U+1E7E", <<"U+1E7F">>>>, <<"U+1E80", <<"U+1E81">>>>,
     <<"U+1E82", <<"U+1E83">>>>, <<"U+1E84", <<"U+1E85">>>>, <<"U+1E86", <<"U+1E87">>>>,
     <<"U+1E88", <<"U+1E89">>>>, <<"U+1E8A", <<"U+1E8B">>>>, <<"U+1E8C", <<"U+1E8D">>>>,
     <<"U+1E8E", <<"U+1E8F">>>>, <<"U+1E90", <<"U+1E91">>>>, <<"U+1E92", <<"U+1E93">>>>,
     <<"U+1E94", <<"U+1E95">>>>, <<"U+1E9E", <<"U+00DF">>>>, <<"U+1EA0", <<"U+1EA1">>>>,
     <<"U+1EA2", <<"U+1EA3">>>>, <<"U+1EA4", <<"U+1EA5">>>>, <<"U+1EA6", <<"U+1EA7">>>>,
     <<"U+1EA8", <<"U+1EA9">>>>, <<"U+1EAA", <<"U+1EAB">>>>, <<"U+1EAC", <<"U+1EAD">>>>,
     <<"U+1EAE", <<"U+1EAF">>>>, <<"U+1EB0", <<"U+1EB1">>>>, <<"U+1EB2", <<"U+1EB3">>>>,
     <<"U+1EB4", <<"U+1EB5">>>>, <<"U+1EB6", <<"U+1EB7">>>>, <<"U+1EB8", <<"U+1EB9">>>>,
     <<"U+1EBA", <<"U+1EBB">>>>, <<"U+1EBC", <<"U+1EBD">>>>, <<"U+1EBE", <<"U+1EBF">>>>,
     <<"U+1EC0", <<"U+1EC1">>>>, <<"U+1EC2", <<"U+1EC3">>>>, <<"U+1EC4", <<"U+1EC5">>>>,
     <<"U+1EC6", <<"U+1EC7">>>>, <<"U+1EC8", <<"U+1EC9">>>>, <<"U+1ECA", <<"U+1ECB">>>>,
     <<"U+1ECC", <<"U+1ECD">>>>, <<"U+1ECE", <<"U+1ECF">>>>, <<"U+1ED0", <<"U+1ED1">>>>,
     <<"U+1ED2", <<"U+1ED3">>>>, <<"U+1ED4", <<"U+1ED5">>>>, <<"U+1ED6", <<"U+1ED7">>>>,
     <<"U+1ED8", <<"U+1ED9">>>>, <<"U+1EDA", <<"U+1EDB">>>>, <<"U+1EDC", <<"U+1EDD">>>>,
     <<"U+1EDE", <<"U+1EDF">>>>, <<"U+1EE0", <<"U+1EE1">>>>, <<"U+1EE2", <<"U+1EE3">>>>,
     <<"U+1EE4", <<"U+1EE5">>>>, <<"U+1EE6", <<"U+1EE7">>>>, <<"U+1EE8", <<"U+1EE9">>>>,
     <<"U+1EEA", <<"U+1EEB">>>>, <<"U+1EEC", <<"U+1EED">>>>, <<"U+1EEE", <<"U+1EEF">>>>,
     <<"U+1EF0", <<"U+1EF1">>>>, <<"U+1EF2", <<"U+1EF3">>>>, <<"U+1EF4", <<"U+1EF5">>>>,
     <<"U+1EF6", <<"U+1EF7">>>>, <<"U+1EF8", <<"U+1EF9">>>>, <<"U+1EFA", <<"U+1EFB">>>>,
     <<"U+1EFC", <<"U+1EFD">>>>, <<"U+1EFE", <<"U+1EFF">>>>, <<"U+1F08", <<"U+1F00">>>>,
     <<"U+1F09", <<"U+1F01">>>>, <<"U+1F0A", <<"U+1F02">>>>, <<"U+1F0B", <<"U+1F03">>>>,
     <<"U+1F0C", <<"U+1F04">>>>, <<"U+1F0D", <<"U+1F05">>>>, <<"U+1F0E", <<"U+1F06">>>>,
     <<"U+1F0F", <<"U+1F07">>>>, <<"U+1F18", <<"U+1F10">>>>, <<"U+1F19", <<"U+1F11">>>>,
     <<"U+1F1A", <<"U+1F12">>>>, <<"U+1F1B", <<"U+1F13">>>>, <<"U+1F1C", <<"U+1F14">>>>,
     <<"U+1F1D", <<"U+1F15">>>>, <<"U+1F28", <<"U+1F20">>>>, <<"U+1F29", <<"U+1F21">>>>,
     <<"U+1F2A", <<"U+1F22">>>>, <<"U+1F2B", <<"U+1F23">>>>, <<"U+1F2C", <<"U+1F24">>>>,
     <<"U+1F2D", <<"U+1F25">>>>, <<"U+1F2E", <<"U+1F26">>>>, <<"U+1F2F", <<"U+1F27">>>>,
     <<"U+1F38", <<"U+1F30">>>>, <<"U+1F39", <<"U+1F31">>>>, <<"U+1F3A", <<"U+1F32">>>>,
     <<"U+1F3B", <<"U+1F33">>>>, <<"U+1F3C", <<"U+1F34">>>>, <<"U+1F3D", <<"U+1F35">>>>,
     <<"U+1F3E", <<"U+1F36">>>>, <<"U+1F3F", <<"U+1F37">>>>, <<"U+1F48", <<"U+1F40">>>>,
     <<"U+1F49", <<"U+1F41">>>>, <<"U+1F4A", <<"U+1F42">>>>, <<"U+1F4B", <<"U+1F43">>>>,
     <<"U+1F4C", <<"U+1F44">>>>, <<"U+1F4D", <<"U+1F45">>>>, <<"U+1F59", <<"U+1F51">>>>,
     <<"U+1F5B", <<"U+1F53">>>>, <<"U+1F5D", <<"U+1F55">>>>, <<"U+1F5F", <<"U+1F57">>>>,
     <<"U+1F68", <<"U+1F60">>>>, <<"U+1F69", <<"U+1F61">>>>, <<"U+1F6A", <<"U+1F62">>>>,
     <<"U+1F6B", <<"U+1F63">>>>, <<"U+1F6C", <<"U+1F64">>>>, <<"U+1F6D", <<"U+1F65">>>>,
     <<"U+1F6E", <<"U+1F66">>>>, <<"U+1F6F", <<"U+1F67">>>>, <<"U+1F88", <<"U+1F80">>>>,
     <<"U+1F89", <<"U+1F81">>>>, <<"U+1F8A", <<"U+1F82">>>>, <<"U+1F8B", <<"U+1F83">>>>,
     <<"U+1F8C", <<"U+1F84">>>>, <<"U+1F8D", <<"U+1F85">>>>, <<"U+1F8E", <<"U+1F86">>>>,
     <<"U+1F8F", <<"U+1F87">>>>, <<"U+1F98", <<"U+1F90">>>>, <<"U+1F99", <<"U+1F91">>>>,
     <<"U+1F9A", <<"U+1F92">>>>, <<"U+1F9B", <<"U+1F93">>>>, <<"U+1F9C", <<"U+1F94">>>>,
     <<"U+1F9D", <<"U+1F95">>>>, <<"U+1F9E", <<"U+1F96">>>>, <<"U+1F9F", <<"U+1F97">>>>,
     <<"U+1FA8", <<"U+1FA0">>>>, <<"U+1FA9", <<"U+1FA1">>>>, <<"U+1FAA", <<"U+1FA2">>>>,
     <<"U+1FAB", <<"U+1FA3">>>>, <<"U+1FAC", <<"U+1FA4">>>>, <<"U+1FAD", <<"U+1FA5">>>>,
     <<"U+1FAE", <<"U+1FA6">>>>, <<"U+1FAF", <<"U+1FA7">>>>, <<"U+1FB8", <<"U+1FB0">>>>,
     <<"U+1FB9", <<"U+1FB1">>>>, <<"U+1FBA", <<"U+1F70">>>>, <<"U+1FBB", <<"U+1F71">>>>,
     <<"U+1FBC", <<"U+1FB3">>>>, <<"U+1FC8", <<"U+1F72">>>>, <<"U+1FC9", <<"U+1F73">>>>,
     <<"U+1FCA", <<"U+1F74">>>>, <<"U+1FCB", <<"U+1F75">>>>, <<"U+1FCC", <<"U+1FC3">>>>,
     <<"U+1FD8", <<"U+1FD0">>>>, <<"U+1FD9", <<"U+1FD1">>>>, <<"U+1FDA", <<"U+1F76">>>>,
     <<"U+1FDB", <<"U+1F77">>>>, <<"U+1FE8", <<"U+1FE0">>>>, <<"U+1FE9", <<"U+1FE1">>>>,
     <<"U+1FEA", <<"U+1F7A">>>>, <<"U+1FEB", <<"U+1F7B">>>>, <<"U+1FEC", <<"U+1FE5">>>>,
     <<"U+1FF8", <<"U+1F78">>>>, <<"U+1FF9", <<"U+1F79">>>>, <<"U+1FFA", <<"U+1F7C">>>>,
     <<"U+1FFB", <<"U+1F7D">>>>, <<"U+1FFC", <<"U+1FF3">>>>, <<"U+2126", <<"U+03C9">>>>,
     <<"U+212A", <<"k">>>>, <<"U+212B", <<"U+00E5">>>>, <<"U+2132", <<"U+214E">>>>,
     <<"U+2160", <<"U+2170">>>>, <<"U+2161", <<"U+2171">>>>, <<"U+2162", <<"U+2172">>>>,
     <<"U+2163", <<"U+2173">>>>, <<"U+2164", <<"U+2174">>>>, <<"U+2165", <<"U+2175">>>>,
     <<"U+2166", <<"U+2176">>>>, <<"U+2167", <<"U+2177">>>>, <<"U+2168", <<"U+2178">>>>,
     <<"U+2169", <<"U+2179">>>>, <<"U+216A", <<"U+217A">>>>, <<"U+216B", <<"U+217B">>>>,
     <<"U+216C", <<"U+217C">>>>, <<"U+216D", <<"U+217D">>>>, <<"U+216E", <<"U+217E">>>>,
     <<"U+216F", <<"U+217F">>>>, <<"U+2183", <<"U+2184">>>>, <<"U+24B6", <<"U+24D0">>>>,
     <<"U+24B7", <<"U+24D1">>>>, <<"U+24B8", <<"U+24D2">>>>, <<"U+24B9", <<"U+24D3">>>>,
     <<"U+24BA", <<"U+24D4">>>>, <<"U+24BB", <<"U+24D5">>>>, <<"U+24BC", <<"U+24D6">>>>,
     <<"U+24BD", <<"U+24D7">>>>, <<"U+24BE", <<"U+24D8">>>>, <<"U+24BF", <<"U+24D9">>>>,
     <<"U+24C0", <<"U+24DA">>>>, <<"U+24C1", <<"U+24DB">>>>, <<"U+24C2", <<"U+24DC">>>>,
     <<"U+24C3", <<"U+24DD">>>>, <<"U+24C4", <<"U+24DE">>>>, <<"U+24C5", <<"U+24DF">>>>,
     <<"U+24C6", <<"U+24E0">>>>, <<"U+24C7", <<"U+24E1">>>>, <<"U+24C8", <<"U+24E2">>>>,
     <<"U+24C9", <<"U+24E3">>>>, <<"U+24CA", <<"U+24E4">>>>, <<"U+24CB", <<"U+24E5">>>>,
     <<"U+24CC", <<"U+24E6">>>>, <<"U+24CD", <<"U+24E7">>>>, <<"U+24CE", <<"U+24E8">>>>,
     <<"U+24CF", <<"U+24E9">>>>, <<"U+2C00", <<"U+2C30">>>>, <<"U+2C01", <<"U+2C31">>>>,
     <<"U+2C02", <<"U+2C32">>>>, <<"U+2C03", <<"U+2C33">>>>, <<"U+2C04", <<"U+2C34">>>>,
     <<"U+2C05", <<"U+2C35">>>>, <<"U+2C06", <<"U+2C36">>>>, <<"U+2C07", <<"U+2C37">>>>,
     <<"U+2C08", <<"U+2C38">>>>, <<"U+2C09", <<"U+2C39">>>>, <<"U+2C0A", <<"U+2C3A">>>>,
     <<"U+2C0B", <<"U+2C3B">>>>, <<"U+2C0C", <<"U+2C3C">>>>, <<"U+2C0D", <<"U+2C3D">>>>,
     <<"U+2C0E", <<"U+2C3E">>>>, <<"U+2C0F", <<"U+2C3F">>>>, <<"U+2C10", <<"U+2C40">>>>,
     <<"U+2C11", <<"U+2C41">>>>, <<"U+2C12", <<"U+2C42">>>>, <<"U+2C13", <<"U+2C43">>>>,
     <<"U+2C14", <<"U+2C44">>>>, <<"U+2C15", <<"U+2C45">>>>, <<"U+2C16", <<"U+2C46">>>>,
     <<"U+2C17", <<"U+2C47">>>>, <<"U+2C18", <<"U+2C48">>>>, <<"U+2C19", <<"U+2C49">>>>,
     <<"U+2C1A", <<"U+2C4A">>>>, <<"U+2C1B", <<"U+2C4B">>>>, <<"U+2C1C", <<"U+2C4C">>>>,
     <<"U+2C1D", <<"U+2C4D">>>>, <<"U+2C1E", <<"U+2C4E">>>>, <<"U+2C1F", <<"U+2C4F">>>>,
     <<"U+2C20", <<"U+2C50">>>>, <<"U+2C21", <<"U+2C51">>>>, <<"U+2C22", <<"U+2C52">>>>,
     <<"U+2C23", <<"U+2C53">>>>, <<"U+2C24", <<"U+2C54">>>>, <<"U+2C25", <<"U+2C55">>>>,
     <<"U+2C26", <<"U+2C56">>>>, <<"U+2C27", <<"U+2C57">>>>, <<"U+2C28", <<"U+2C58">>>>,
     <<"U+2C29", <<"U+2C59">>>>, <<"U+2C2A", <<"U+2C5A">>>>, <<"U+2C2B", <<"U+2C5B">>>>,
     <<"U+2C2C", <<"U+2C5C">>>>, <<"U+2C2D", <<"U+2C5D">>>>, <<"U+2C2E", <<"U+2C5E">>>>,
     <<"U+2C2F", <<"U+2C5F">>>>, <<"U+2C60", <<"U+2C61">>>>, <<"U+2C62", <<"U+026B">>>>,
     <<"U+2C63", <<"U+1D7D">>>>, <<"U+2C64", <<"U+027D">>>>, <<"U+2C67", <<"U+2C68">>>>,
     <<"U+2C69", <<"U+2C6A">>>>, <<"U+2C6B", <<"U+2C6C">>>>, <<"U+2C6D", <<"U+0251">>>>,
     <<"U+2C6E", <<"U+0271">>>>, <<"U+2C6F", <<"U+0250">>>>, <<"U+2C70", <<"U+0252">>>>,
     <<"U+2C72", <<"U+2C73">>>>, <<"U+2C75", <<"U+2C76">>>>, <<"U+2C7E", <<"U+023F">>>>,
     <<"U+2C7F", <<"U+0240">>>>, <<"U+2C80", <<"U+2C81">>>>, <<"U+2C82", <<"U+2C83">>>>,
     <<"U+2C84", <<"U+2C85">>>>, <<"U+2C86", <<"U+2C87">>>>, <<"U+2C88", <<"U+2C89">>>>,
     <<"U+2C8A", <<"U+2C8B">>>>, <<"U+2C8C", <<"U+2C8D">>>>, <<"U+2C8E", <<"U+2C8F">>>>,
     <<"U+2C90", <<"U+2C91">>>>, <<"U+2C92", <<"U+2C93">>>>, <<"U+2C94", <<"U+2C95">>>>,
     <<"U+2C96", <<"U+2C97">>>>, <<"U+2C98", <<"U+2C99">>>>, <<"U+2C9A", <<"U+2C9B">>>>,
     <<"U+2C9C", <<"U+2C9D">>>>, <<"U+2C9E", <<"U+2C9F">>>>, <<"U+2CA0", <<"U+2CA1">>>>,
     <<"U+2CA2", <<"U+2CA3">>>>, <<"U+2CA4", <<"U+2CA5">>>>, <<"U+2CA6", <<"U+2CA7">>>>,
     <<"U+2CA8", <<"U+2CA9">>>>, <<"U+2CAA", <<"U+2CAB">>>>, <<"U+2CAC", <<"U+2CAD">>>>,
     <<"U+2CAE", <<"U+2CAF">>>>, <<"U+2CB0", <<"U+2CB1">>>>, <<"U+2CB2", <<"U+2CB3">>>>,
     <<"U+2CB4", <<"U+2CB5">>>>, <<"U+2CB6", <<"U+2CB7">>>>, <<"U+2CB8", <<"U+2CB9">>>>,
     <<"U+2CBA", <<"U+2CBB">>>>, <<"U+2CBC", <<"U+2CBD">>>>, <<"U+2CBE", <<"U+2CBF">>>>,
     <<"U+2CC0", <<"U+2CC1">>>>, <<"U+2CC2", <<"U+2CC3">>>>, <<"U+2CC4", <<"U+2CC5">>>>,
     <<"U+2CC6", <<"U+2CC7">>>>, <<"U+2CC8", <<"U+2CC9">>>>, <<"U+2CCA", <<"U+2CCB">>>>,
     <<"U+2CCC", <<"U+2CCD">>>>, <<"U+2CCE", <<"U+2CCF">>>>, <<"U+2CD0", <<"U+2CD1">>>>,
     <<"U+2CD2", <<"U+2CD3">>>>, <<"U+2CD4", <<"U+2CD5">>>>, <<"U+2CD6", <<"U+2CD7">>>>,
     <<"U+2CD8", <<"U+2CD9">>>>, <<"U+2CDA", <<"U+2CDB">>>>, <<"U+2CDC", <<"U+2CDD">>>>,
     <<"U+2CDE", <<"U+2CDF">>>>, <<"U+2CE0", <<"U+2CE1">>>>, <<"U+2CE2", <<"U+2CE3">>>>,
     <<"U+2CEB", <<"U+2CEC">>>>, <<"U+2CED", <<"U+2CEE">>>>, <<"U+2CF2", <<"U+2CF3">>>>,
     <<"U+A640", <<"U+A641">>>>, <<"U+A642", <<"U+A643">>>>, <<"U+A644", <<"U+A645">>>>,
     <<"U+A646", <<"U+A647">>>>, <<"U+A648", <<"U+A649">>>>, <<"U+A64A", <<"U+A64B">>>>,
     <<"U+A64C", <<"U+A64D">>>>, <<"U+A64E", <<"U+A64F">>>>, <<"U+A650", <<"U+A651">>>>,
     <<"U+A652", <<"U+A653">>>>, <<"U+A654", <<"U+A655">>>>, <<"U+A656", <<"U+A657">>>>,
     <<"U+A658", <<"U+A659">>>>, <<"U+A65A", <<"U+A65B">>>>, <<"U+A65C", <<"U+A65D">>>>,
     <<"U+A65E", <<"U+A65F">>>>, <<"U+A660", <<"U+A661">>>>, <<"U+A662", <<"U+A663">>>>,
     <<"U+A664", <<"U+A665">>>>, <<"U+A666", <<"U+A667">>>>, <<"U+A668", <<"U+A669">>>>,
     <<"U+A66A", <<"U+A66B">>>>, <<"U+A66C", <<"U+A66D">>>>, <<"U+A680", <<"U+A681">>>>,
     <<"U+A682", <<"U+A683">>>>, <<"U+A684", <<"U+A685">>>>, <<"U+A686", <<"U+A687">>>>,
     <<"U+A688", <<"U+A689">>>>, <<"U+A68A", <<"U+A68B">>>>, <<"U+A68C", <<"U+A68D">>>>,
     <<"U+A68E", <<"U+A68F">>>>, <<"U+A690", <<"U+A691">>>>, <<"U+A692", <<"U+A693">>>>,
     <<"U+A694", <<"U+A695">>>>, <<"U+A696", <<"U+A697">>>>, <<"U+A698", <<"U+A699">>>>,
     <<"U+A69A", <<"U+A69B">>>>, <<"U+A722", <<"U+A723">>>>, <<"U+A724", <<"U+A725">>>>,
     <<"U+A726", <<"U+A727">>>>, <<"U+A728", <<"U+A729">>>>, <<"U+A72A", <<"U+A72B">>>>,
     <<"U+A72C", <<"U+A72D">>>>, <<"U+A72E", <<"U+A72F">>>>, <<"U+A732", <<"U+A733">>>>,
     <<"U+A734", <<"U+A735">>>>, <<"U+A736", <<"U+A737">>>>, <<"U+A738", <<"U+A739">>>>,
     <<"U+A73A", <<"U+A73B">>>>, <<"U+A73C", <<"U+A73D">>>>, <<"U+A73E", <<"U+A73F">>>>,
     <<"U+A740", <<"U+A741">>>>, <<"U+A742", <<"U+A743">>>>, <<"U+A744", <<"U+A745">>>>,
     <<"U+A746", <<"U+A747">>>>, <<"U+A748", <<"U+A749">>>>, <<"U+A74A", <<"U+A74B">>>>,
     <<"U+A74C", <<"U+A74D">>>>, <<"U+A74E", <<"U+A74F">>>>, <<"U+A750", <<"U+A751">>>>,
     <<"U+A752", <<"U+A753">>>>, <<"U+A754", <<"U+A755">>>>, <<"U+A756", <<"U+A757">>>>,
     <<"U+A758", <<"U+A759">>>>, <<"U+A75A", <<"U+A75B">>>>, <<"U+A75C", <<"U+A75D">>>>,
     <<"U+A75E", <<"U+A75F">>>>, <<"U+A760", <<"U+A761">>>>, <<"U+A762", <<"U+A763">>>>,
     <<"U+A764", <<"U+A765">>>>, <<"U+A766", <<"U+A767">>>>, <<"U+A768", <<"U+A769">>>>,
     <<"U+A76A", <<"U+A76B">>>>, <<"U+A76C", <<"U+A76D">>>>, <<"U+A76E", <<"U+A76F">>>>,
     <<"U+A779", <<"U+A77A">>>>, <<"U+A77B", <<"U+A77C">>>>, <<"U+A77D", <<"U+1D79">>>>,
     <<"U+A77E", <<"U+A77F">>>>, <<"U+A780", <<"U+A781">>>>, <<"U+A782", <<"U+A783">>>>,
     <<"U+A784", <<"U+A785">>>>, <<"U+A786", <<"U+A787">>>>, <<"U+A78B", <<"U+A78C">>>>,
     <<"U+A78D", <<"U+0265">>>>, <<"U+A790", <<"U+A791">>>>, <<"U+A792", <<"U+A793">>>>,
     <<"U+A796", <<"U+A797">>>>, <<"U+A798", <<"U+A799">>>>, <<"U+A79A", <<"U+A79B">>>>,
     <<"U+A79C", <<"U+A79D">>>>, <<"U+A79E", <<"U+A79F">>>>, <<"U+A7A0", <<"U+A7A1">>>>,
     <<"U+A7A2", <<"U+A7A3">>>>, <<"U+A7A4", <<"U+A7A5">>>>, <<"U+A7A6", <<"U+A7A7">>>>,
     <<"U+A7A8", <<"U+A7A9">>>>, <<"U+A7AA", <<"U+0266">>>>, <<"U+A7AB", <<"U+025C">>>>,
     <<"U+A7AC", <<"U+0261">>>>, <<"U+A7AD", <<"U+026C">>>>, <<"U+A7AE", <<"U+026A">>>>,
     <<"U+A7B0", <<"U+029E">>>>, <<"U+A7B1", <<"U+0287">>>>, <<"U+A7B2", <<"U+029D">>>>,
     <<"U+A7B3", <<"U+AB53">>>>, <<"U+A7B4", <<"U+A7B5">>>>, <<"U+A7B6", <<"U+A7B7">>>>,
     <<"U+A7B8", <<"U+A7B9">>>>, <<"U+A7BA", <<"U+A7BB">>>>, <<"U+A7BC", <<"U+A7BD">>>>,
     <<"U+A7BE", <<"U+A7BF">>>>, <<"U+A7C0", <<"U+A7C1">>>>, <<"U+A7C2", <<"U+A7C3">>>>,
     <<"U+A7C4", <<"U+A794">>>>, <<"U+A7C5", <<"U+0282">>>>, <<"U+A7C6", <<"U+1D8E">>>>,
     <<"U+A7C7", <<"U+A7C8">>>>, <<"U+A7C9", <<"U+A7CA">>>>, <<"U+A7CB", <<"U+0264">>>>,
     <<"U+A7CC", <<"U+A7CD">>>>, <<"U+A7CE", <<"U+A7CF">>>>, <<"U+A7D0", <<"U+A7D1">>>>,
     <<"U+A7D2", <<"U+A7D3">>>>, <<"U+A7D4", <<"U+A7D5">>>>, <<"U+A7D6", <<"U+A7D7">>>>,
     <<"U+A7D8", <<"U+A7D9">>>>, <<"U+A7DA", <<"U+A7DB">>>>, <<"U+A7DC", <<"U+019B">>>>,
     <<"U+A7F5", <<"U+A7F6">>>>, <<"U+FF21", <<"U+FF41">>>>, <<"U+FF22", <<"U+FF42">>>>,
     <<"U+FF23", <<"U+FF43">>>>, <<"U+FF24", <<"U+FF44">>>>, <<"U+FF25", <<"U+FF45">>>>,
     <<"U+FF26", <<"U+FF46">>>>, <<"U+FF27", <<"U+FF47">>>>, <<"U+FF28", <<"U+FF48">>>>,
     <<"U+FF29", <<"U+FF49">>>>, <<"U+FF2A", <<"U+FF4A">>>>, <<"U+FF2B", <<"U+FF4B">>>>,
     <<"U+FF2C", <<"U+FF4C">>>>, <<"U+FF2D", <<"U+FF4D">>>>, <<"U+FF2E", <<"U+FF4E">>>>,
     <<"U+FF2F", <<"U+FF4F">>>>, <<"U+FF30", <<"U+FF50">>>>, <<"U+FF31", <<"U+FF51">>>>,
     <<"U+FF32", <<"U+FF52">>>>, <<"U+FF33", <<"U+FF53">>>>, <<"U+FF34", <<"U+FF54">>>>,
     <<"U+FF35", <<"U+FF55">>>>, <<"U+FF36", <<"U+FF56">>>>, <<"U+FF37", <<"U+FF57">>>>,
     <<"U+FF38", <<"U+FF58">>>>, <<"U+FF39", <<"U+FF59">>>>, <<"U+FF3A", <<"U+FF5A">>>>,
     <<"U+10400", <<"U+10428">>>>, <<"U+10401", <<"U+10429">>>>, <<"U+10402", <<"U+1042A">>>>,
     <<"U+10403", <<"U+1042B">>>>, <<"U+10404", <<"U+1042C">>>>, <<"U+10405", <<"U+1042D">>>>,
     <<"U+10406", <<"U+1042E">>>>, <<"U+10407", <<"U+1042F">>>>, <<"U+10408", <<"U+10430">>>>,
     <<"U+10409", <<"U+10431">>>>, <<"U+1040A", <<"U+10432">>>>, <<"U+1040B", <<"U+10433">>>>,
     <<"U+1040C", <<"U+10434">>>>, <<"U+1040D", <<"U+10435">>>>, <<"U+1040E", <<"U+10436">>>>,
     <<"U+1040F", <<"U+10437">>>>, <<"U+10410", <<"U+10438">>>>, <<"U+10411", <<"U+10439">>>>,
     <<"U+10412", <<"U+1043A">>>>, <<"U+10413", <<"U+1043B">>>>, <<"U+10414", <<"U+1043C">>>>,
     <<"U+10415", <<"U+1043D">>>>, <<"U+10416", <<"U+1043E">>>>, <<"U+10417", <<"U+1043F">>>>,
     <<"U+10418", <<"U+10440">>>>, <<"U+10419", <<"U+10441">>>>, <<"U+1041A", <<"U+10442">>>>,
     <<"U+1041B", <<"U+10443">>>>, <<"U+1041C", <<"U+10444">>>>, <<"U+1041D", <<"U+10445">>>>,
     <<"U+1041E", <<"U+10446">>>>, <<"U+1041F", <<"U+10447">>>>, <<"U+10420", <<"U+10448">>>>,
     <<"U+10421", <<"U+10449">>>>, <<"U+10422", <<"U+1044A">>>>, <<"U+10423", <<"U+1044B">>>>,
     <<"U+10424", <<"U+1044C">>>>, <<"U+10425", <<"U+1044D">>>>, <<"U+10426", <<"U+1044E">>>>,
     <<"U+10427", <<"U+1044F">>>>, <<"U+104B0", <<"U+104D8">>>>, <<"U+104B1", <<"U+104D9">>>>,
     <<"U+104B2", <<"U+104DA">>>>, <<"U+104B3", <<"U+104DB">>>>, <<"U+104B4", <<"U+104DC">>>>,
     <<"U+104B5", <<"U+104DD">>>>, <<"U+104B6", <<"U+104DE">>>>, <<"U+104B7", <<"U+104DF">>>>,
     <<"U+104B8", <<"U+104E0">>>>, <<"U+104B9", <<"U+104E1">>>>, <<"U+104BA", <<"U+104E2">>>>,
     <<"U+104BB", <<"U+104E3">>>>, <<"U+104BC", <<"U+104E4">>>>, <<"U+104BD", <<"U+104E5">>>>,
     <<"U+104BE", <<"U+104E6">>>>, <<"U+104BF", <<"U+104E7">>>>, <<"U+104C0", <<"U+104E8">>>>,
     <<"U+104C1", <<"U+104E9">>>>, <<"U+104C2", <<"U+104EA">>>>, <<"U+104C3", <<"U+104EB">>>>,
     <<"U+104C4", <<"U+104EC">>>>, <<"U+104C5", <<"U+104ED">>>>, <<"U+104C6", <<"U+104EE">>>>,
     <<"U+104C7", <<"U+104EF">>>>, <<"U+104C8", <<"U+104F0">>>>, <<"U+104C9", <<"U+104F1">>>>,
     <<"U+104CA", <<"U+104F2">>>>, <<"U+104CB", <<"U+104F3">>>>, <<"U+104CC", <<"U+104F4">>>>,
     <<"U+104CD", <<"U+104F5">>>>, <<"U+104CE", <<"U+104F6">>>>, <<"U+104CF", <<"U+104F7">>>>,
     <<"U+104D0", <<"U+104F8">>>>, <<"U+104D1", <<"U+104F9">>>>, <<"U+104D2", <<"U+104FA">>>>,
     <<"U+104D3", <<"U+104FB">>>>, <<"U+10570", <<"U+10597">>>>, <<"U+10571", <<"U+10598">>>>,
     <<"U+10572", <<"U+10599">>>>, <<"U+10573", <<"U+1059A">>>>, <<"U+10574", <<"U+1059B">>>>,
     <<"U+10575", <<"U+1059C">>>>, <<"U+10576", <<"U+1059D">>>>, <<"U+10577", <<"U+1059E">>>>,
     <<"U+10578", <<"U+1059F">>>>, <<"U+10579", <<"U+105A0">>>>, <<"U+1057A", <<"U+105A1">>>>,
     <<"U+1057C", <<"U+105A3">>>>, <<"U+1057D", <<"U+105A4">>>>, <<"U+1057E", <<"U+105A5">>>>,
     <<"U+1057F", <<"U+105A6">>>>, <<"U+10580", <<"U+105A7">>>>, <<"U+10581", <<"U+105A8">>>>,
     <<"U+10582", <<"U+105A9">>>>, <<"U+10583", <<"U+105AA">>>>, <<"U+10584", <<"U+105AB">>>>,
     <<"U+10585", <<"U+105AC">>>>, <<"U+10586", <<"U+105AD">>>>, <<"U+10587", <<"U+105AE">>>>,
     <<"U+10588", <<"U+105AF">>>>, <<"U+10589", <<"U+105B0">>>>, <<"U+1058A", <<"U+105B1">>>>,
     <<"U+1058C", <<"U+105B3">>>>, <<"U+1058D", <<"U+105B4">>>>, <<"U+1058E", <<"U+105B5">>>>,
     <<"U+1058F", <<"U+105B6">>>>, <<"U+10590", <<"U+105B7">>>>, <<"U+10591", <<"U+105B8">>>>,
     <<"U+10592", <<"U+105B9">>>>, <<"U+10594", <<"U+105BB">>>>, <<"U+10595", <<"U+105BC">>>>,
     <<"U+10C80", <<"U+10CC0">>>>, <<"U+10C81", <<"U+10CC1">>>>, <<"U+10C82", <<"U+10CC2">>>>,
     <<"U+10C83", <<"U+10CC3">>>>, <<"U+10C84", <<"U+10CC4">>>>, <<"U+10C85", <<"U+10CC5">>>>,
     <<"U+10C86", <<"U+10CC6">>>>, <<"U+10C87", <<"U+10CC7">>>>, <<"U+10C88", <<"U+10CC8">>>>,
     <<"U+10C89", <<"U+10CC9">>>>, <<"U+10C8A", <<"U+10CCA">>>>, <<"U+10C8B", <<"U+10CCB">>>>,
     <<"U+10C8C", <<"U+10CCC">>>>, <<"U+10C8D", <<"U+10CCD">>>>, <<"U+10C8E", <<"U+10CCE">>>>,
     <<"U+10C8F", <<"U+10CCF">>>>, <<"U+10C90", <<"U+10CD0">>>>, <<"U+10C91", <<"U+10CD1">>>>,
     <<"U+10C92", <<"U+10CD2">>>>, <<"U+10C93", <<"U+10CD3">>>>, <<"U+10C94", <<"U+10CD4">>>>,
     <<"U+10C95", <<"U+10CD5">>>>, <<"U+10C96", <<"U+10CD6">>>>, <<"U+10C97", <<"U+10CD7">>>>,
     <<"U+10C98", <<"U+10CD8">>>>, <<"U+10C99", <<"U+10CD9">>>>, <<"U+10C9A", <<"U+10CDA">>>>,
     <<"U+10C9B", <<"U+10CDB">>>>, <<"U+10C9C", <<"U+10CDC">>>>, <<"U+10C9D", <<"U+10CDD">>>>,
     <<"U+10C9E", <<"U+10CDE">>>>, <<"U+10C9F", <<"U+10CDF">>>>, <<"U+10CA0", <<"U+10CE0">>>>,
     <<"U+10CA1", <<"U+10CE1">>>>, <<"U+10CA2", <<"U+10CE2">>>>, <<"U+10CA3", <<"U+10CE3">>>>,
     <<"U+10CA4", <<"U+10CE4">>>>, <<"U+10CA5", <<"U+10CE5">>>>, <<"U+10CA6", <<"U+10CE6">>>>,
     <<"U+10CA7", <<"U+10CE7">>>>, <<"U+10CA8", <<"U+10CE8">>>>, <<"U+10CA9", <<"U+10CE9">>>>,
     <<"U+10CAA", <<"U+10CEA">>>>, <<"U+10CAB", <<"U+10CEB">>>>, <<"U+10CAC", <<"U+10CEC">>>>,
     <<"U+10CAD", <<"U+10CED">>>>, <<"U+10CAE", <<"U+10CEE">>>>, <<"U+10CAF", <<"U+10CEF">>>>,
     <<"U+10CB0", <<"U+10CF0">>>>, <<"U+10CB1", <<"U+10CF1">>>>, <<"U+10CB2", <<"U+10CF2">>>>,
     <<"U+10D50", <<"U+10D70">>>>, <<"U+10D51", <<"U+10D71">>>>, <<"U+10D52", <<"U+10D72">>>>,
     <<"U+10D53", <<"U+10D73">>>>, <<"U+10D54", <<"U+10D74">>>>, <<"U+10D55", <<"U+10D75">>>>,
     <<"U+10D56", <<"U+10D76">>>>, <<"U+10D57", <<"U+10D77">>>>, <<"U+10D58", <<"U+10D78">>>>,
     <<"U+10D59", <<"U+10D79">>>>, <<"U+10D5A", <<"U+10D7A">>>>, <<"U+10D5B", <<"U+10D7B">>>>,
     <<"U+10D5C", <<"U+10D7C">>>>, <<"U+10D5D", <<"U+10D7D">>>>, <<"U+10D5E", <<"U+10D7E">>>>,
     <<"U+10D5F", <<"U+10D7F">>>>, <<"U+10D60", <<"U+10D80">>>>, <<"U+10D61", <<"U+10D81">>>>,
     <<"U+10D62", <<"U+10D82">>>>, <<"U+10D63", <<"U+10D83">>>>, <<"U+10D64", <<"U+10D84">>>>,
     <<"U+10D65", <<"U+10D85">>>>, <<"U+118A0", <<"U+118C0">>>>, <<"U+118A1", <<"U+118C1">>>>,
     <<"U+118A2", <<"U+118C2">>>>, <<"U+118A3", <<"U+118C3">>>>, <<"U+118A4", <<"U+118C4">>>>,
     <<"U+118A5", <<"U+118C5">>>>, <<"U+118A6", <<"U+118C6">>>>, <<"U+118A7", <<"U+118C7">>>>,
     <<"U+118A8", <<"U+118C8">>>>, <<"U+118A9", <<"U+118C9">>>>, <<"U+118AA", <<"U+118CA">>>>,
     <<"U+118AB", <<"U+118CB">>>>, <<"U+118AC", <<"U+118CC">>>>, <<"U+118AD", <<"U+118CD">>>>,
     <<"U+118AE", <<"U+118CE">>>>, <<"U+118AF", <<"U+118CF">>>>, <<"U+118B0", <<"U+118D0">>>>,
     <<"U+118B1", <<"U+118D1">>>>, <<"U+118B2", <<"U+118D2">>>>, <<"U+118B3", <<"U+118D3">>>>,
     <<"U+118B4", <<"U+118D4">>>>, <<"U+118B5", <<"U+118D5">>>>, <<"U+118B6", <<"U+118D6">>>>,
     <<"U+118B7", <<"U+118D7">>>>, <<"U+118B8", <<"U+118D8">>>>, <<"U+118B9", <<"U+118D9">>>>,
     <<"U+118BA", <<"U+118DA">>>>, <<"U+118BB", <<"U+118DB">>>>, <<"U+118BC", <<"U+118DC">>>>,
     <<"U+118BD", <<"U+118DD">>>>, <<"U+118BE", <<"U+118DE">>>>, <<"U+118BF", <<"U+118DF">>>>,
     <<"U+16E40", <<"U+16E60">>>>, <<"U+16E41", <<"U+16E61">>>>, <<"U+16E42", <<"U+16E62">>>>,
     <<"U+16E43", <<"U+16E63">>>>, <<"U+16E44", <<"U+16E64">>>>, <<"U+16E45", <<"U+16E65">>>>,
     <<"U+16E46", <<"U+16E66">>>>, <<"U+16E47", <<"U+16E67">>>>, <<"U+16E48", <<"U+16E68">>>>,
     <<"U+16E49", <<"U+16E69">>>>, <<"U+16E4A", <<"U+16E6A">>>>, <<"U+16E4B", <<"U+16E6B">>>>,
     <<"U+16E4C", <<"U+16E6C">>>>, <<"U+16E4D", <<"U+16E6D">>>>, <<"U+16E4E", <<"U+16E6E">>>>,
     <<"U+16E4F", <<"U+16E6F">>>>, <<"U+16E50", <<"U+16E70">>>>, <<"U+16E51", <<"U+16E71">>>>,
     <<"U+16E52", <<"U+16E72">>>>, <<"U+16E53", <<"U+16E73">>>>, <<"U+16E54", <<"U+16E74">>>>,
     <<"U+16E55", <<"U+16E75">>>>, <<"U+16E56", <<"U+16E76">>>>, <<"U+16E57", <<"U+16E77">>>>,
     <<"U+16E58", <<"U+16E78">>>>, <<"U+16E59", <<"U+16E79">>>>, <<"U+16E5A", <<"U+16E7A">>>>,
     <<"U+16E5B", <<"U+16E7B">>>>, <<"U+16E5C", <<"U+16E7C">>>>, <<"U+16E5D", <<"U+16E7D">>>>,
     <<"U+16E5E", <<"U+16E7E">>>>, <<"U+16E5F", <<"U+16E7F">>>>, <<"U+16EA0", <<"U+16EBB">>>>,
     <<"U+16EA1", <<"U+16EBC">>>>, <<"U+16EA2", <<"U+16EBD">>>>, <<"U+16EA3", <<"U+16EBE">>>>,
     <<"U+16EA4", <<"U+16EBF">>>>, <<"U+16EA5", <<"U+16EC0">>>>, <<"U+16EA6", <<"U+16EC1">>>>,
     <<"U+16EA7", <<"U+16EC2">>>>, <<"U+16EA8", <<"U+16EC3">>>>, <<"U+16EA9", <<"U+16EC4">>>>,
     <<"U+16EAA", <<"U+16EC5">>>>, <<"U+16EAB", <<"U+16EC6">>>>, <<"U+16EAC", <<"U+16EC7">>>>,
     <<"U+16EAD", <<"U+16EC8">>>>, <<"U+16EAE", <<"U+16EC9">>>>, <<"U+16EAF", <<"U+16ECA">>>>,
     <<"U+16EB0", <<"U+16ECB">>>>, <<"U+16EB1", <<"U+16ECC">>>>, <<"U+16EB2", <<"U+16ECD">>>>,
     <<"U+16EB3", <<"U+16ECE">>>>, <<"U+16EB4", <<"U+16ECF">>>>, <<"U+16EB5", <<"U+16ED0">>>>,
     <<"U+16EB6", <<"U+16ED1">>>>, <<"U+16EB7", <<"U+16ED2">>>>, <<"U+16EB8", <<"U+16ED3">>>>,
     <<"U+1E900", <<"U+1E922">>>>, <<"U+1E901", <<"U+1E923">>>>, <<"U+1E902", <<"U+1E924">>>>,
     <<"U+1E903", <<"U+1E925">>>>, <<"U+1E904", <<"U+1E926">>>>, <<"U+1E905", <<"U+1E927">>>>,
     <<"U+1E906", <<"U+1E928">>>>, <<"U+1E907", <<"U+1E929">>>>, <<"U+1E908", <<"U+1E92A">>>>,
     <<"U+1E909", <<"U+1E92B">>>>, <<"U+1E90A", <<"U+1E92C">>>>, <<"U+1E90B", <<"U+1E92D">>>>,
     <<"U+1E90C", <<"U+1E92E">>>>, <<"U+1E90D", <<"U+1E92F">>>>, <<"U+1E90E", <<"U+1E930">>>>,
     <<"U+1E90F", <<"U+1E931">>>>, <<"U+1E910", <<"U+1E932">>>>, <<"U+1E911", <<"U+1E933">>>>,
     <<"U+1E912", <<"U+1E934">>>>, <<"U+1E913", <<"U+1E935">>>>, <<"U+1E914", <<"U+1E936">>>>,
     <<"U+1E915", <<"U+1E937">>>>, <<"U+1E916", <<"U+1E938">>>>, <<"U+1E917", <<"U+1E939">>>>,
     <<"U+1E918", <<"U+1E93A">>>>, <<"U+1E919", <<"U+1E93B">>>>, <<"U+1E91A", <<"U+1E93C">>>>,
     <<"U+1E91B", <<"U+1E93D">>>>, <<"U+1E91C", <<"U+1E93E">>>>, <<"U+1E91D", <<"U+1E93F">>>>,
     <<"U+1E91E", <<"U+1E940">>>>, <<"U+1E91F", <<"U+1E941">>>>, <<"U+1E920", <<"U+1E942">>>>,
     <<"U+1E921", <<"U+1E943">>>>
    }

UppercaseMapped == {p[1] : p \in UPPERCASE_TABLE}
LowercaseMapped == {p[1] : p \in LOWERCASE_TABLE}

\* core::unicode::Cased: the characters with the property Cased of
\* Unicode 17.0 (U+0295 is caseless since 17.0).
CasedChars ==
    {
     "A", "B", "C", "D", "E", "F", "G", "H", "I", "J", "K", "L", "M", "N", "O", "P", "Q", "R", "S",
     "T", "U", "V", "W", "X", "Y", "Z", "a", "b", "c", "d", "e", "f", "g", "h", "i", "j", "k", "l",
     "m", "n", "o", "p", "q", "r", "s", "t", "u", "v", "w", "x", "y", "z", "U+00AA", "U+00B5",
     "U+00BA", "U+00C0", "U+00C1", "U+00C2", "U+00C3", "U+00C4", "U+00C5", "U+00C6", "U+00C7",
     "U+00C8", "U+00C9", "U+00CA", "U+00CB", "U+00CC", "U+00CD", "U+00CE", "U+00CF", "U+00D0",
     "U+00D1", "U+00D2", "U+00D3", "U+00D4", "U+00D5", "U+00D6", "U+00D8", "U+00D9", "U+00DA",
     "U+00DB", "U+00DC", "U+00DD", "U+00DE", "U+00DF", "U+00E0", "U+00E1", "U+00E2", "U+00E3",
     "U+00E4", "U+00E5", "U+00E6", "U+00E7", "U+00E8", "U+00E9", "U+00EA", "U+00EB", "U+00EC",
     "U+00ED", "U+00EE", "U+00EF", "U+00F0", "U+00F1", "U+00F2", "U+00F3", "U+00F4", "U+00F5",
     "U+00F6", "U+00F8", "U+00F9", "U+00FA", "U+00FB", "U+00FC", "U+00FD", "U+00FE", "U+00FF",
     "U+0100", "U+0101", "U+0102", "U+0103", "U+0104", "U+0105", "U+0106", "U+0107", "U+0108",
     "U+0109", "U+010A", "U+010B", "U+010C", "U+010D", "U+010E", "U+010F", "U+0110", "U+0111",
     "U+0112", "U+0113", "U+0114", "U+0115", "U+0116", "U+0117", "U+0118", "U+0119", "U+011A",
     "U+011B", "U+011C", "U+011D", "U+011E", "U+011F", "U+0120", "U+0121", "U+0122", "U+0123",
     "U+0124", "U+0125", "U+0126", "U+0127", "U+0128", "U+0129", "U+012A", "U+012B", "U+012C",
     "U+012D", "U+012E", "U+012F", "U+0130", "U+0131", "U+0132", "U+0133", "U+0134", "U+0135",
     "U+0136", "U+0137", "U+0138", "U+0139", "U+013A", "U+013B", "U+013C", "U+013D", "U+013E",
     "U+013F", "U+0140", "U+0141", "U+0142", "U+0143", "U+0144", "U+0145", "U+0146", "U+0147",
     "U+0148", "U+0149", "U+014A", "U+014B", "U+014C", "U+014D", "U+014E", "U+014F", "U+0150",
     "U+0151", "U+0152", "U+0153", "U+0154", "U+0155", "U+0156", "U+0157", "U+0158", "U+0159",
     "U+015A", "U+015B", "U+015C", "U+015D", "U+015E", "U+015F", "U+0160", "U+0161", "U+0162",
     "U+0163", "U+0164", "U+0165", "U+0166", "U+0167", "U+0168", "U+0169", "U+016A", "U+016B",
     "U+016C", "U+016D", "U+016E", "U+016F", "U+0170", "U+0171", "U+0172", "U+0173", "U+0174",
     "U+0175", "U+0176", "U+0177", "U+0178", "U+0179", "U+017A", "U+017B", "U+017C", "U+017D",
     "U+017E", "U+017F", "U+0180", "U+0181", "U+0182", "U+0183", "U+0184", "U+0185", "U+0186",
     "U+0187", "U+0188", "U+0189", "U+018A", "U+018B", "U+018C", "U+018D", "U+018E", "U+018F",
     "U+0190", "U+0191", "U+0192", "U+0193", "U+0194", "U+0195", "U+0196", "U+0197", "U+0198",
     "U+0199", "U+019A", "U+019B", "U+019C", "U+019D", "U+019E", "U+019F", "U+01A0", "U+01A1",
     "U+01A2", "U+01A3", "U+01A4", "U+01A5", "U+01A6", "U+01A7", "U+01A8", "U+01A9", "U+01AA",
     "U+01AB", "U+01AC", "U+01AD", "U+01AE", "U+01AF", "U+01B0", "U+01B1", "U+01B2", "U+01B3",
     "U+01B4", "U+01B5", "U+01B6", "U+01B7", "U+01B8", "U+01B9", "U+01BA", "U+01BC", "U+01BD",
     "U+01BE", "U+01BF", "U+01C4", "U+01C5", "U+01C6", "U+01C7", "U+01C8", "U+01C9", "U+01CA",
     "U+01CB", "U+01CC", "U+01CD", "U+01CE", "U+01CF", "U+01D0", "U+01D1", "U+01D2", "U+01D3",
     "U+01D4", "U+01D5", "U+01D6", "U+01D7", "U+01D8", "U+01D9", "U+01DA", "U+01DB", "U+01DC",
     "U+01DD", "U+01DE", "U+01DF", "U+01E0", "U+01E1", "U+01E2", "U+01E3", "U+01E4", "U+01E5",
     "U+01E6", "U+01E7", "U+01E8", "U+01E9", "U+01EA", "U+01EB", "U+01EC", "U+01ED", "U+01EE",
     "U+01EF", "U+01F0", "U+01F1", "U+01F2", "U+01F3", "U+01F4", "U+01F5", "U+01F6", "U+01F7",
     "U+01F8", "U+01F9", "U+01FA", "U+01FB", "U+01FC", "U+01FD", "U+01FE", "U+01FF", "U+0200",
     "U+0201", "U+0202", "U+0203", "U+0204", "U+0205", "U+0206", "U+0207", "U+0208", "U+0209",
     "U+020A", "U+020B", "U+020C", "U+020D", "U+020E", "U+020F", "U+0210", "U+0211", "U+0212",
     "U+0213", "U+0214", "U+0215", "U+0216", "U+0217", "U+0218", "U+0219", "U+021A", "U+021B",
     "U+021C", "U+021D", "U+021E", "U+021F", "U+0220", "U+0221", "U+0222", "U+0223", "U+0224",
     "U+0225", "U+0226", "U+0227", "U+0228", "U+0229", "U+022A", "U+022B", "U+022C", "U+022D",
     "U+022E", "U+022F", "U+0230", "U+0231", "U+0232", "U+0233", "U+0234", "U+0235", "U+0236",
     "U+0237", "U+0238", "U+0239", "U+023A", "U+023B", "U+023C", "U+023D", "U+023E", "U+023F",
     "U+0240", "U+0241", "U+0242", "U+0243", "U+0244", "U+0245", "U+0246", "U+0247", "U+0248",
     "U+0249", "U+024A", "U+024B", "U+024C", "U+024D", "U+024E", "U+024F", "U+0250", "U+0251",
     "U+0252", "U+0253", "U+0254", "U+0255", "U+0256", "U+0257", "U+0258", "U+0259", "U+025A",
     "U+025B", "U+025C", "U+025D", "U+025E", "U+025F", "U+0260", "U+0261", "U+0262", "U+0263",
     "U+0264", "U+0265", "U+0266", "U+0267", "U+0268", "U+0269", "U+026A", "U+026B", "U+026C",
     "U+026D", "U+026E", "U+026F", "U+0270", "U+0271", "U+0272", "U+0273", "U+0274", "U+0275",
     "U+0276", "U+0277", "U+0278", "U+0279", "U+027A", "U+027B", "U+027C", "U+027D", "U+027E",
     "U+027F", "U+0280", "U+0281", "U+0282", "U+0283", "U+0284", "U+0285", "U+0286", "U+0287",
     "U+0288", "U+0289", "U+028A", "U+028B", "U+028C", "U+028D", "U+028E", "U+028F", "U+0290",
     "U+0291", "U+0292", "U+0293", "U+0296", "U+0297", "U+0298", "U+0299", "U+029A", "U+029B",
     "U+029C", "U+029D", "U+029E", "U+029F", "U+02A0", "U+02A1", "U+02A2", "U+02A3", "U+02A4",
     "U+02A5", "U+02A6", "U+02A7", "U+02A8", "U+02A9", "U+02AA", "U+02AB", "U+02AC", "U+02AD",
     "U+02AE", "U+02AF", "U+02B0", "U+02B1", "U+02B2", "U+02B3", "U+02B4", "U+02B5", "U+02B6",
     "U+02B7", "U+02B8", "U+02C0", "U+02C1", "U+02E0", "U+02E1", "U+02E2", "U+02E3", "U+02E4",
     "U+0345", "U+0370", "U+0371", "U+0372", "U+0373", "U+0376", "U+0377", "U+037A", "U+037B",
     "U+037C", "U+037D", "U+037F", "U+0386", "U+0388", "U+0389", "U+038A", "U+038C", "U+038E",
     "U+038F", "U+0390", "U+0391", "U+0392", "U+0393", "U+0394", "U+0395", "U+0396", "U+0397",
     "U+0398", "U+0399", "U+039A", "U+039B", "U+039C", "U+039D", "U+039E", "U+039F", "U+03A0",
     "U+03A1", "U+03A3", "U+03A4", "U+03A5", "U+03A6", "U+03A7", "U+03A8", "U+03A9", "U+03AA",
     "U+03AB", "U+03AC", "U+03AD", "U+03AE", "U+03AF", "U+03B0", "U+03B1", "U+03B2", "U+03B3",
     "U+03B4", "U+03B5", "U+03B6", "U+03B7", "U+03B8", "U+03B9", "U+03BA", "U+03BB", "U+03BC",
     "U+03BD", "U+03BE", "U+03BF", "U+03C0", "U+03C1", "U+03C2", "U+03C3", "U+03C4", "U+03C5",
     "U+03C6", "U+03C7", "U+03C8", "U+03C9", "U+03CA", "U+03CB", "U+03CC", "U+03CD", "U+03CE",
     "U+03CF", "U+03D0", "U+03D1", "U+03D2", "U+03D3", "U+03D4", "U+03D5", "U+03D6", "U+03D7",
     "U+03D8", "U+03D9", "U+03DA", "U+03DB", "U+03DC", "U+03DD", "U+03DE", "U+03DF", "U+03E0",
     "U+03E1", "U+03E2", "U+03E3", "U+03E4", "U+03E5", "U+03E6", "U+03E7", "U+03E8", "U+03E9",
     "U+03EA", "U+03EB", "U+03EC", "U+03ED", "U+03EE", "U+03EF", "U+03F0", "U+03F1", "U+03F2",
     "U+03F3", "U+03F4", "U+03F5", "U+03F7", "U+03F8", "U+03F9", "U+03FA", "U+03FB", "U+03FC",
     "U+03FD", "U+03FE", "U+03FF", "U+0400", "U+0401", "U+0402", "U+0403", "U+0404", "U+0405",
     "U+0406", "U+0407", "U+0408", "U+0409", "U+040A", "U+040B", "U+040C", "U+040D", "U+040E",
     "U+040F", "U+0410", "U+0411", "U+0412", "U+0413", "U+0414", "U+0415", "U+0416", "U+0417",
     "U+0418", "U+0419", "U+041A", "U+041B", "U+041C", "U+041D", "U+041E", "U+041F", "U+0420",
     "U+0421", "U+0422", "U+0423", "U+0424", "U+0425", "U+0426", "U+0427", "U+0428", "U+0429",
     "U+042A", "U+042B", "U+042C", "U+042D", "U+042E", "U+042F", "U+0430", "U+0431", "U+0432",
     "U+0433", "U+0434", "U+0435", "U+0436", "U+0437", "U+0438", "U+0439", "U+043A", "U+043B",
     "U+043C", "U+043D", "U+043E", "U+043F", "U+0440", "U+0441", "U+0442", "U+0443", "U+0444",
     "U+0445", "U+0446", "U+0447", "U+0448", "U+0449", "U+044A", "U+044B", "U+044C", "U+044D",
     "U+044E", "U+044F", "U+0450", "U+0451", "U+0452", "U+0453", "U+0454", "U+0455", "U+0456",
     "U+0457", "U+0458", "U+0459", "U+045A", "U+045B", "U+045C", "U+045D", "U+045E", "U+045F",
     "U+0460", "U+0461", "U+0462", "U+0463", "U+0464", "U+0465", "U+0466", "U+0467", "U+0468",
     "U+0469", "U+046A", "U+046B", "U+046C", "U+046D", "U+046E", "U+046F", "U+0470", "U+0471",
     "U+0472", "U+0473", "U+0474", "U+0475", "U+0476", "U+0477", "U+0478", "U+0479", "U+047A",
     "U+047B", "U+047C", "U+047D", "U+047E", "U+047F", "U+0480", "U+0481", "U+048A", "U+048B",
     "U+048C", "U+048D", "U+048E", "U+048F", "U+0490", "U+0491", "U+0492", "U+0493", "U+0494",
     "U+0495", "U+0496", "U+0497", "U+0498", "U+0499", "U+049A", "U+049B", "U+049C", "U+049D",
     "U+049E", "U+049F", "U+04A0", "U+04A1", "U+04A2", "U+04A3", "U+04A4", "U+04A5", "U+04A6",
     "U+04A7", "U+04A8", "U+04A9", "U+04AA", "U+04AB", "U+04AC", "U+04AD", "U+04AE", "U+04AF",
     "U+04B0", "U+04B1", "U+04B2", "U+04B3", "U+04B4", "U+04B5", "U+04B6", "U+04B7", "U+04B8",
     "U+04B9", "U+04BA", "U+04BB", "U+04BC", "U+04BD", "U+04BE", "U+04BF", "U+04C0", "U+04C1",
     "U+04C2", "U+04C3", "U+04C4", "U+04C5", "U+04C6", "U+04C7", "U+04C8", "U+04C9", "U+04CA",
     "U+04CB", "U+04CC", "U+04CD", "U+04CE", "U+04CF", "U+04D0", "U+04D1", "U+04D2", "U+04D3",
     "U+04D4", "U+04D5", "U+04D6", "U+04D7", "U+04D8", "U+04D9", "U+04DA", "U+04DB", "U+04DC",
     "U+04DD", "U+04DE", "U+04DF", "U+04E0", "U+04E1", "U+04E2", "U+04E3", "U+04E4", "U+04E5",
     "U+04E6", "U+04E7", "U+04E8", "U+04E9", "U+04EA", "U+04EB", "U+04EC", "U+04ED", "U+04EE",
     "U+04EF", "U+04F0", "U+04F1", "U+04F2", "U+04F3", "U+04F4", "U+04F5", "U+04F6", "U+04F7",
     "U+04F8", "U+04F9", "U+04FA", "U+04FB", "U+04FC", "U+04FD", "U+04FE", "U+04FF", "U+0500",
     "U+0501", "U+0502", "U+0503", "U+0504", "U+0505", "U+0506", "U+0507", "U+0508", "U+0509",
     "U+050A", "U+050B", "U+050C", "U+050D", "U+050E", "U+050F", "U+0510", "U+0511", "U+0512",
     "U+0513", "U+0514", "U+0515", "U+0516", "U+0517", "U+0518", "U+0519", "U+051A", "U+051B",
     "U+051C", "U+051D", "U+051E", "U+051F", "U+0520", "U+0521", "U+0522", "U+0523", "U+0524",
     "U+0525", "U+0526", "U+0527", "U+0528", "U+0529", "U+052A", "U+052B", "U+052C", "U+052D",
     "U+052E", "U+052F", "U+0531", "U+0532", "U+0533", "U+0534", "U+0535", "U+0536", "U+0537",
     "U+0538", "U+0539", "U+053A", "U+053B", "U+053C", "U+053D", "U+053E", "U+053F", "U+0540",
     "U+0541", "U+0542", "U+0543", "U+0544", "U+0545", "U+0546", "U+0547", "U+0548", "U+0549",
     "U+054A", "U+054B", "U+054C", "U+054D", "U+054E", "U+054F", "U+0550", "U+0551", "U+0552",
     "U+0553", "U+0554", "U+0555", "U+0556", "U+0560", "U+0561", "U+0562", "U+0563", "U+0564",
     "U+0565", "U+0566", "U+0567", "U+0568", "U+0569", "U+056A", "U+056B", "U+056C", "U+056D",
     "U+056E", "U+056F", "U+0570", "U+0571", "U+0572", "U+0573", "U+0574", "U+0575", "U+0576",
     "U+0577", "U+0578", "U+0579", "U+057A", "U+057B", "U+057C", "U+057D", "U+057E", "U+057F",
     "U+0580", "U+0581", "U+0582", "U+0583", "U+0584", "U+0585", "U+0586", "U+0587", "U+0588",
     "U+10A0", "U+10A1", "U+10A2", "U+10A3", "U+10A4", "U+10A5", "U+10A6", "U+10A7", "U+10A8",
     "U+10A9", "U+10AA", "U+10AB", "U+10AC", "U+10AD", "U+10AE", "U+10AF", "U+10B0", "U+10B1",
     "U+10B2", "U+10B3", "U+10B4", "U+10B5", "U+10B6", "U+10B7", "U+10B8", "U+10B9", "U+10BA",
     "U+10BB", "U+10BC", "U+10BD", "U+10BE", "U+10BF", "U+10C0", "U+10C1", "U+10C2", "U+10C3",
     "U+10C4", "U+10C5", "U+10C7", "U+10CD", "U+10D0", "U+10D1", "U+10D2", "U+10D3", "U+10D4",
     "U+10D5", "U+10D6", "U+10D7", "U+10D8", "U+10D9", "U+10DA", "U+10DB", "U+10DC", "U+10DD",
     "U+10DE", "U+10DF", "U+10E0", "U+10E1", "U+10E2", "U+10E3", "U+10E4", "U+10E5", "U+10E6",
     "U+10E7", "U+10E8", "U+10E9", "U+10EA", "U+10EB", "U+10EC", "U+10ED", "U+10EE", "U+10EF",
     "U+10F0", "U+10F1", "U+10F2", "U+10F3", "U+10F4", "U+10F5", "U+10F6", "U+10F7", "U+10F8",
     "U+10F9", "U+10FA", "U+10FC", "U+10FD", "U+10FE", "U+10FF", "U+13A0", "U+13A1", "U+13A2",
     "U+13A3", "U+13A4", "U+13A5", "U+13A6", "U+13A7", "U+13A8", "U+13A9", "U+13AA", "U+13AB",
     "U+13AC", "U+13AD", "U+13AE", "U+13AF", "U+13B0", "U+13B1", "U+13B2", "U+13B3", "U+13B4",
     "U+13B5", "U+13B6", "U+13B7", "U+13B8", "U+13B9", "U+13BA", "U+13BB", "U+13BC", "U+13BD",
     "U+13BE", "U+13BF", "U+13C0", "U+13C1", "U+13C2", "U+13C3", "U+13C4", "U+13C5", "U+13C6",
     "U+13C7", "U+13C8", "U+13C9", "U+13CA", "U+13CB", "U+13CC", "U+13CD", "U+13CE", "U+13CF",
     "U+13D0", "U+13D1", "U+13D2", "U+13D3", "U+13D4", "U+13D5", "U+13D6", "U+13D7", "U+13D8",
     "U+13D9", "U+13DA", "U+13DB", "U+13DC", "U+13DD", "U+13DE", "U+13DF", "U+13E0", "U+13E1",
     "U+13E2", "U+13E3", "U+13E4", "U+13E5", "U+13E6", "U+13E7", "U+13E8", "U+13E9", "U+13EA",
     "U+13EB", "U+13EC", "U+13ED", "U+13EE", "U+13EF", "U+13F0", "U+13F1", "U+13F2", "U+13F3",
     "U+13F4", "U+13F5", "U+13F8", "U+13F9", "U+13FA", "U+13FB", "U+13FC", "U+13FD", "U+1C80",
     "U+1C81", "U+1C82", "U+1C83", "U+1C84", "U+1C85", "U+1C86", "U+1C87", "U+1C88", "U+1C89",
     "U+1C8A", "U+1C90", "U+1C91", "U+1C92", "U+1C93", "U+1C94", "U+1C95", "U+1C96", "U+1C97",
     "U+1C98", "U+1C99", "U+1C9A", "U+1C9B", "U+1C9C", "U+1C9D", "U+1C9E", "U+1C9F", "U+1CA0",
     "U+1CA1", "U+1CA2", "U+1CA3", "U+1CA4", "U+1CA5", "U+1CA6", "U+1CA7", "U+1CA8", "U+1CA9",
     "U+1CAA", "U+1CAB", "U+1CAC", "U+1CAD", "U+1CAE", "U+1CAF", "U+1CB0", "U+1CB1", "U+1CB2",
     "U+1CB3", "U+1CB4", "U+1CB5", "U+1CB6", "U+1CB7", "U+1CB8", "U+1CB9", "U+1CBA", "U+1CBD",
     "U+1CBE", "U+1CBF", "U+1D00", "U+1D01", "U+1D02", "U+1D03", "U+1D04", "U+1D05", "U+1D06",
     "U+1D07", "U+1D08", "U+1D09", "U+1D0A", "U+1D0B", "U+1D0C", "U+1D0D", "U+1D0E", "U+1D0F",
     "U+1D10", "U+1D11", "U+1D12", "U+1D13", "U+1D14", "U+1D15", "U+1D16", "U+1D17", "U+1D18",
     "U+1D19", "U+1D1A", "U+1D1B", "U+1D1C", "U+1D1D", "U+1D1E", "U+1D1F", "U+1D20", "U+1D21",
     "U+1D22", "U+1D23", "U+1D24", "U+1D25", "U+1D26", "U+1D27", "U+1D28", "U+1D29", "U+1D2A",
     "U+1D2B", "U+1D2C", "U+1D2D", "U+1D2E", "U+1D2F", "U+1D30", "U+1D31", "U+1D32", "U+1D33",
     "U+1D34", "U+1D35", "U+1D36", "U+1D37", "U+1D38", "U+1D39", "U+1D3A", "U+1D3B", "U+1D3C",
     "U+1D3D", "U+1D3E", "U+1D3F", "U+1D40", "U+1D41", "U+1D42", "U+1D43", "U+1D44", "U+1D45",
     "U+1D46", "U+1D47", "U+1D48", "U+1D49", "U+1D4A", "U+1D4B", "U+1D4C", "U+1D4D", "U+1D4E",
     "U+1D4F", "U+1D50", "U+1D51", "U+1D52", "U+1D53", "U+1D54", "U+1D55", "U+1D56", "U+1D57",
     "U+1D58", "U+1D59", "U+1D5A", "U+1D5B", "U+1D5C", "U+1D5D", "U+1D5E", "U+1D5F", "U+1D60",
     "U+1D61", "U+1D62", "U+1D63", "U+1D64", "U+1D65", "U+1D66", "U+1D67", "U+1D68", "U+1D69",
     "U+1D6A", "U+1D6B", "U+1D6C", "U+1D6D", "U+1D6E", "U+1D6F", "U+1D70", "U+1D71", "U+1D72",
     "U+1D73", "U+1D74", "U+1D75", "U+1D76", "U+1D77", "U+1D78", "U+1D79", "U+1D7A", "U+1D7B",
     "U+1D7C", "U+1D7D", "U+1D7E", "U+1D7F", "U+1D80", "U+1D81", "U+1D82", "U+1D83", "U+1D84",
     "U+1D85", "U+1D86", "U+1D87", "U+1D88", "U+1D89", "U+1D8A", "U+1D8B", "U+1D8C", "U+1D8D",
     "U+1D8E", "U+1D8F", "U+1D90", "U+1D91", "U+1D92", "U+1D93", "U+1D94", "U+1D95", "U+1D96",
     "U+1D97", "U+1D98", "U+1D99", "U+1D9A", "U+1D9B", "U+1D9C", "U+1D9D", "U+1D9E", "U+1D9F",
     "U+1DA0", "U+1DA1", "U+1DA2", "U+1DA3", "U+1DA4", "U+1DA5", "U+1DA6", "U+1DA7", "U+1DA8",
     "U+1DA9", "U+1DAA", "U+1DAB", "U+1DAC", "U+1DAD", "U+1DAE", "U+1DAF", "U+1DB0", "U+1DB1",
     "U+1DB2", "U+1DB3", "U+1DB4", "U+1DB5", "U+1DB6", "U+1DB7", "U+1DB8", "U+1DB9", "U+1DBA",
     "U+1DBB", "U+1DBC", "U+1DBD", "U+1DBE", "U+1DBF", "U+1E00", "U+1E01", "U+1E02", "U+1E03",
     "U+1E04", "U+1E05", "U+1E06", "U+1E07", "U+1E08", "U+1E09", "U+1E0A", "U+1E0B", "U+1E0C",
     "U+1E0D", "U+1E0E", "U+1E0F", "U+1E10", "U+1E11", "U+1E12", "U+1E13", "U+1E14", "U+1E15",
     "U+1E16", "U+1E17", "U+1E18", "U+1E19", "U+1E1A", "U+1E1B", "U+1E1C", "U+1E1D", "U+1E1E",
     "U+1E1F", "U+1E20", "U+1E21", "U+1E22", "U+1E23", "U+1E24", "U+1E25", "U+1E26", "U+1E27",
     "U+1E28", "U+1E29", "U+1E2A", "U+1E2B", "U+1E2C", "U+1E2D", "U+1E2E", "U+1E2F", "U+1E30",
     "U+1E31", "U+1E32", "U+1E33", "U+1E34", "U+1E35", "U+1E36", "U+1E37", "U+1E38", "U+1E39",
     "U+1E3A", "U+1E3B", "U+1E3C", "U+1E3D", "U+1E3E", "U+1E3F", "U+1E40", "U+1E41", "U+1E42",
     "U+1E43", "U+1E44", "U+1E45", "U+1E46", "U+1E47", "U+1E48", "U+1E49", "U+1E4A", "U+1E4B",
     "U+1E4C", "U+1E4D", "U+1E4E", "U+1E4F", "U+1E50", "U+1E51", "U+1E52", "U+1E53", "U+1E54",
     "U+1E55", "U+1E56", "U+1E57", "U+1E58", "U+1E59", "U+1E5A", "U+1E5B", "U+1E5C", "U+1E5D",
     "U+1E5E", "U+1E5F", "U+1E60", "U+1E61", "U+1E62", "U+1E63", "U+1E64", "U+1E65", "U+1E66",
     "U+1E67", "U+1E68", "U+1E69", "U+1E6A", "U+1E6B", "U+1E6C", "U+1E6D", "U+1E6E", "U+1E6F",
     "U+1E70", "U+1E71", "U+1E72", "U+1E73", "U+1E74", "U+1E75", "U+1E76", "U+1E77", "U+1E78",
     "U+1E79", "U+1E7A", "U+1E7B", "U+1E7C", "U+1E7D", "U+1E7E", "U+1E7F", "U+1E80", "U+1E81",
     "U+1E82", "U+1E83", "U+1E84", "U+1E85", "U+1E86", "U+1E87", "U+1E88", "U+1E89", "U+1E8A",
     "U+1E8B", "U+1E8C", "U+1E8D", "U+1E8E", "U+1E8F", "U+1E90", "U+1E91", "U+1E92", "U+1E93",
     "U+1E94", "U+1E95", "U+1E96", "U+1E97", "U+1E98", "U+1E99", "U+1E9A", "U+1E9B", "U+1E9C",
     "U+1E9D", "U+1E9E", "U+1E9F", "U+1EA0", "U+1EA1", "U+1EA2", "U+1EA3", "U+1EA4", "U+1EA5",
     "U+1EA6", "U+1EA7", "U+1EA8", "U+1EA9", "U+1EAA", "U+1EAB", "U+1EAC", "U+1EAD", "U+1EAE",
     "U+1EAF", "U+1EB0", "U+1EB1", "U+1EB2", "U+1EB3", "U+1EB4", "U+1EB5", "U+1EB6", "U+1EB7",
     "U+1EB8", "U+1EB9", "U+1EBA", "U+1EBB", "U+1EBC", "U+1EBD", "U+1EBE", "U+1EBF", "U+1EC0",
     "U+1EC1", "U+1EC2", "U+1EC3", "U+1EC4", "U+1EC5", "U+1EC6", "U+1EC7", "U+1EC8", "U+1EC9",
     "U+1ECA", "U+1ECB", "U+1ECC", "U+1ECD", "U+1ECE", "U+1ECF", "U+1ED0", "U+1ED1", "U+1ED2",
     "U+1ED3", "U+1ED4", "U+1ED5", "U+1ED6", "U+1ED7", "U+1ED8", "U+1ED9", "U+1EDA", "U+1EDB",
     "U+1EDC", "U+1EDD", "U+1EDE", "U+1EDF", "U+1EE0", "U+1EE1", "U+1EE2", "U+1EE3", "U+1EE4",
     "U+1EE5", "U+1EE6", "U+1EE7", "U+1EE8", "U+1EE9", "U+1EEA", "U+1EEB", "U+1EEC", "U+1EED",
     "U+1EEE", "U+1EEF", "U+1EF0", "U+1EF1", "U+1EF2", "U+1EF3", "U+1EF4", "U+1EF5", "U+1EF6",
     "U+1EF7", "U+1EF8", "U+1EF9", "U+1EFA", "U+1EFB", "U+1EFC", "U+1EFD", "U+1EFE", "U+1EFF",
     "U+1F00", "U+1F01", "U+1F02", "U+1F03", "U+1F04", "U+1F05", "U+1F06", "U+1F07", "U+1F08",
     "U+1F09", "U+1F0A", "U+1F0B", "U+1F0C", "U+1F0D", "U+1F0E", "U+1F0F", "U+1F10", "U+1F11",
     "U+1F12", "U+1F13", "U+1F14", "U+1F15", "U+1F18", "U+1F19", "U+1F1A", "U+1F1B", "U+1F1C",
     "U+1F1D", "U+1F20", "U+1F21", "U+1F22", "U+1F23", "U+1F24", "U+1F25", "U+1F26", "U+1F27",
     "U+1F28", "U+1F29", "U+1F2A", "U+1F2B", "U+1F2C", "U+1F2D", "U+1F2E", "U+1F2F", "U+1F30",
     "U+1F31", "U+1F32", "U+1F33", "U+1F34", "U+1F35", "U+1F36", "U+1F37", "U+1F38", "U+1F39",
     "U+1F3A", "U+1F3B", "U+1F3C", "U+1F3D", "U+1F3E", "U+1F3F", "U+1F40", "U+1F41", "U+1F42",
     "U+1F43", "U+1F44", "U+1F45", "U+1F48", "U+1F49", "U+1F4A", "U+1F4B", "U+1F4C", "U+1F4D",
     "U+1F50", "U+1F51", "U+1F52", "U+1F53", "U+1F54", "U+1F55", "U+1F56", "U+1F57", "U+1F59",
     "U+1F5B", "U+1F5D", "U+1F5F", "U+1F60", "U+1F61", "U+1F62", "U+1F63", "U+1F64", "U+1F65",
     "U+1F66", "U+1F67", "U+1F68", "U+1F69", "U+1F6A", "U+1F6B", "U+1F6C", "U+1F6D", "U+1F6E",
     "U+1F6F", "U+1F70", "U+1F71", "U+1F72", "U+1F73", "U+1F74", "U+1F75", "U+1F76", "U+1F77",
     "U+1F78", "U+1F79", "U+1F7A", "U+1F7B", "U+1F7C", "U+1F7D", "U+1F80", "U+1F81", "U+1F82",
     "U+1F83", "U+1F84", "U+1F85", "U+1F86", "U+1F87", "U+1F88", "U+1F89", "U+1F8A", "U+1F8B",
     "U+1F8C", "U+1F8D", "U+1F8E", "U+1F8F", "U+1F90", "U+1F91", "U+1F92", "U+1F93", "U+1F94",
     "U+1F95", "U+1F96", "U+1F97", "U+1F98", "U+1F99", "U+1F9A", "U+1F9B", "U+1F9C", "U+1F9D",
     "U+1F9E", "U+1F9F", "U+1FA0", "U+1FA1", "U+1FA2", "U+1FA3", "U+1FA4", "U+1FA5", "U+1FA6",
     "U+1FA7", "U+1FA8", "U+1FA9", "U+1FAA", "U+1FAB", "U+1FAC", "U+1FAD", "U+1FAE", "U+1FAF",
     "U+1FB0", "U+1FB1", "U+1FB2", "U+1FB3", "U+1FB4", "U+1FB6", "U+1FB7", "U+1FB8", "U+1FB9",
     "U+1FBA", "U+1FBB", "U+1FBC", "U+1FBE", "U+1FC2", "U+1FC3", "U+1FC4", "U+1FC6", "U+1FC7",
     "U+1FC8", "U+1FC9", "U+1FCA", "U+1FCB", "U+1FCC", "U+1FD0", "U+1FD1", "U+1FD2", "U+1FD3",
     "U+1FD6", "U+1FD7", "U+1FD8", "U+1FD9", "U+1FDA", "U+1FDB", "U+1FE0", "U+1FE1", "U+1FE2",
     "U+1FE3", "U+1FE4", "U+1FE5", "U+1FE6", "U+1FE7", "U+1FE8", "U+1FE9", "U+1FEA", "U+1FEB",
     "U+1FEC", "U+1FF2", "U+1FF3", "U+1FF4", "U+1FF6", "U+1FF7", "U+1FF8", "U+1FF9", "U+1FFA",
     "U+1FFB", "U+1FFC", "U+2071", "U+207F", "U+2090", "U+2091", "U+2092", "U+2093", "U+2094",
     "U+2095", "U+2096", "U+2097", "U+2098", "U+2099", "U+209A", "U+209B", "U+209C", "U+2102",
     "U+2107", "U+210A", "U+210B", "U+210C", "U+210D", "U+210E", "U+210F", "U+2110", "U+2111",
     "U+2112", "U+2113", "U+2115", "U+2119", "U+211A", "U+211B", "U+211C", "U+211D", "U+2124",
     "U+2126", "U+2128", "U+212A", "U+212B", "U+212C", "U+212D", "U+212F", "U+2130", "U+2131",
     "U+2132", "U+2133", "U+2134", "U+2139", "U+213C", "U+213D", "U+213E", "U+213F", "U+2145",
     "U+2146", "U+2147", "U+2148", "U+2149", "U+214E", "U+2160", "U+2161", "U+2162", "U+2163",
     "U+2164", "U+2165", "U+2166", "U+2167", "U+2168", "U+2169", "U+216A", "U+216B", "U+216C",
     "U+216D", "U+216E", "U+216F", "U+2170", "U+2171", "U+2172", "U+2173", "U+2174", "U+2175",
     "U+2176", "U+2177", "U+2178", "U+2179", "U+217A", "U+217B", "U+217C", "U+217D", "U+217E",
     "U+217F", "U+2183", "U+2184", "U+24B6", "U+24B7", "U+24B8", "U+24B9", "U+24BA", "U+24BB",
     "U+24BC", "U+24BD", "U+24BE", "U+24BF", "U+24C0", "U+24C1", "U+24C2", "U+24C3", "U+24C4",
     "U+24C5", "U+24C6", "U+24C7", "U+24C8", "U+24C9", "U+24CA", "U+24CB", "U+24CC", "U+24CD",
     "U+24CE", "U+24CF", "U+24D0", "U+24D1", "U+24D2", "U+24D3", "U+24D4", "U+24D5", "U+24D6",
     "U+24D7", "U+24D8", "U+24D9", "U+24DA", "U+24DB", "U+24DC", "U+24DD", "U+24DE", "U+24DF",
     "U+24E0", "U+24E1", "U+24E2", "U+24E3", "U+24E4", "U+24E5", "U+24E6", "U+24E7", "U+24E8",
     "U+24E9", "U+2C00", "U+2C01", "U+2C02", "U+2C03", "U+2C04", "U+2C05", "U+2C06", "U+2C07",
     "U+2C08", "U+2C09", "U+2C0A", "U+2C0B", "U+2C0C", "U+2C0D", "U+2C0E", "U+2C0F", "U+2C10",
     "U+2C11", "U+2C12", "U+2C13", "U+2C14", "U+2C15", "U+2C16", "U+2C17", "U+2C18", "U+2C19",
     "U+2C1A", "U+2C1B", "U+2C1C", "U+2C1D", "U+2C1E", "U+2C1F", "U+2C20", "U+2C21", "U+2C22",
     "U+2C23", "U+2C24", "U+2C25", "U+2C26", "U+2C27", "U+2C28", "U+2C29", "U+2C2A", "U+2C2B",
     "U+2C2C", "U+2C2D", "U+2C2E", "U+2C2F", "U+2C30", "U+2C31", "U+2C32", "U+2C33", "U+2C34",
     "U+2C35", "U+2C36", "U+2C37", "U+2C38", "U+2C39", "U+2C3A", "U+2C3B", "U+2C3C", "U+2C3D",
     "U+2C3E", "U+2C3F", "U+2C40", "U+2C41", "U+2C42", "U+2C43", "U+2C44", "U+2C45", "U+2C46",
     "U+2C47", "U+2C48", "U+2C49", "U+2C4A", "U+2C4B", "U+2C4C", "U+2C4D", "U+2C4E", "U+2C4F",
     "U+2C50", "U+2C51", "U+2C52", "U+2C53", "U+2C54", "U+2C55", "U+2C56", "U+2C57", "U+2C58",
     "U+2C59", "U+2C5A", "U+2C5B", "U+2C5C", "U+2C5D", "U+2C5E", "U+2C5F", "U+2C60", "U+2C61",
     "U+2C62", "U+2C63", "U+2C64", "U+2C65", "U+2C66", "U+2C67", "U+2C68", "U+2C69", "U+2C6A",
     "U+2C6B", "U+2C6C", "U+2C6D", "U+2C6E", "U+2C6F", "U+2C70", "U+2C71", "U+2C72", "U+2C73",
     "U+2C74", "U+2C75", "U+2C76", "U+2C77", "U+2C78", "U+2C79", "U+2C7A", "U+2C7B", "U+2C7C",
     "U+2C7D", "U+2C7E", "U+2C7F", "U+2C80", "U+2C81", "U+2C82", "U+2C83", "U+2C84", "U+2C85",
     "U+2C86", "U+2C87", "U+2C88", "U+2C89", "U+2C8A", "U+2C8B", "U+2C8C", "U+2C8D", "U+2C8E",
     "U+2C8F", "U+2C90", "U+2C91", "U+2C92", "U+2C93", "U+2C94", "U+2C95", "U+2C96", "U+2C97",
     "U+2C98", "U+2C99", "U+2C9A", "U+2C9B", "U+2C9C", "U+2C9D", "U+2C9E", "U+2C9F", "U+2CA0",
     "U+2CA1", "U+2CA2", "U+2CA3", "U+2CA4", "U+2CA5", "U+2CA6", "U+2CA7", "U+2CA8", "U+2CA9",
     "U+2CAA", "U+2CAB", "U+2CAC", "U+2CAD", "U+2CAE", "U+2CAF", "U+2CB0", "U+2CB1", "U+2CB2",
     "U+2CB3", "U+2CB4", "U+2CB5", "U+2CB6", "U+2CB7", "U+2CB8", "U+2CB9", "U+2CBA", "U+2CBB",
     "U+2CBC", "U+2CBD", "U+2CBE", "U+2CBF", "U+2CC0", "U+2CC1", "U+2CC2", "U+2CC3", "U+2CC4",
     "U+2CC5", "U+2CC6", "U+2CC7", "U+2CC8", "U+2CC9", "U+2CCA", "U+2CCB", "U+2CCC", "U+2CCD",
     "U+2CCE", "U+2CCF", "U+2CD0", "U+2CD1", "U+2CD2", "U+2CD3", "U+2CD4", "U+2CD5", "U+2CD6",
     "U+2CD7", "U+2CD8", "U+2CD9", "U+2CDA", "U+2CDB", "U+2CDC", "U+2CDD", "U+2CDE", "U+2CDF",
     "U+2CE0", "U+2CE1", "U+2CE2", "U+2CE3", "U+2CE4", "U+2CEB", "U+2CEC", "U+2CED", "U+2CEE",
     "U+2CF2", "U+2CF3", "U+2D00", "U+2D01", "U+2D02", "U+2D03", "U+2D04", "U+2D05", "U+2D06",
     "U+2D07", "U+2D08", "U+2D09", "U+2D0A", "U+2D0B", "U+2D0C", "U+2D0D", "U+2D0E", "U+2D0F",
     "U+2D10", "U+2D11", "U+2D12", "U+2D13", "U+2D14", "U+2D15", "U+2D16", "U+2D17", "U+2D18",
     "U+2D19", "U+2D1A", "U+2D1B", "U+2D1C", "U+2D1D", "U+2D1E", "U+2D1F", "U+2D20", "U+2D21",
     "U+2D22", "U+2D23", "U+2D24", "U+2D25", "U+2D27", "U+2D2D", "U+A640", "U+A641", "U+A642",
     "U+A643", "U+A644", "U+A645", "U+A646", "U+A647", "U+A648", "U+A649", "U+A64A", "U+A64B",
     "U+A64C", "U+A64D", "U+A64E", "U+A64F", "U+A650", "U+A651", "U+A652", "U+A653", "U+A654",
     "U+A655", "U+A656", "U+A657", "U+A658", "U+A659", "U+A65A", "U+A65B", "U+A65C", "U+A65D",
     "U+A65E", "U+A65F", "U+A660", "U+A661", "U+A662", "U+A663", "U+A664", "U+A665", "U+A666",
     "U+A667", "U+A668", "U+A669", "U+A66A", "U+A66B", "U+A66C", "U+A66D", "U+A680", "U+A681",
     "U+A682", "U+A683", "U+A684", "U+A685", "U+A686", "U+A687", "U+A688", "U+A689", "U+A68A",
     "U+A68B", "U+A68C", "U+A68D", "U+A68E", "U+A68F", "U+A690", "U+A691", "U+A692", "U+A693",
     "U+A694", "U+A695", "U+A696", "U+A697", "U+A698", "U+A699", "U+A69A", "U+A69B", "U+A69C",
     "U+A69D", "U+A722", "U+A723", "U+A724", "U+A725", "U+A726", "U+A727", "U+A728", "U+A729",
     "U+A72A", "U+A72B", "U+A72C", "U+A72D", "U+A72E", "U+A72F", "U+A730", "U+A731", "U+A732",
     "U+A733", "U+A734", "U+A735", "U+A736", "U+A737", "U+A738", "U+A739", "U+A73A", "U+A73B",
     "U+A73C", "U+A73D", "U+A73E", "U+A73F", "U+A740", "U+A741", "U+A742", "U+A743", "U+A744",
     "U+A745", "U+A746", "U+A747", "U+A748", "U+A749", "U+A74A", "U+A74B", "U+A74C", "U+A74D",
     "U+A74E", "U+A74F", "U+A750", "U+A751", "U+A752", "U+A753", "U+A754", "U+A755", "U+A756",
     "U+A757", "U+A758", "U+A759", "U+A75A", "U+A75B", "U+A75C", "U+A75D", "U+A75E", "U+A75F",
     "U+A760", "U+A761", "U+A762", "U+A763", "U+A764", "U+A765", "U+A766", "U+A767", "U+A768",
     "U+A769", "U+A76A", "U+A76B", "U+A76C", "U+A76D", "U+A76E", "U+A76F", "U+A770", "U+A771",
     "U+A772", "U+A773", "U+A774", "U+A775", "U+A776", "U+A777", "U+A778", "U+A779", "U+A77A",
     "U+A77B", "U+A77C", "U+A77D", "U+A77E", "U+A77F", "U+A780", "U+A781", "U+A782", "U+A783",
     "U+A784", "U+A785", "U+A786", "U+A787", "U+A78B", "U+A78C", "U+A78D", "U+A78E", "U+A790",
     "U+A791", "U+A792", "U+A793", "U+A794", "U+A795", "U+A796", "U+A797", "U+A798", "U+A799",
     "U+A79A", "U+A79B", "U+A79C", "U+A79D", "U+A79E", "U+A79F", "U+A7A0", "U+A7A1", "U+A7A2",
     "U+A7A3", "U+A7A4", "U+A7A5", "U+A7A6", "U+A7A7", "U+A7A8", "U+A7A9", "U+A7AA", "U+A7AB",
     "U+A7AC", "U+A7AD", "U+A7AE", "U+A7AF", "U+A7B0", "U+A7B1", "U+A7B2", "U+A7B3", "U+A7B4",
     "U+A7B5", "U+A7B6", "U+A7B7", "U+A7B8", "U+A7B9", "U+A7BA", "U+A7BB", "U+A7BC", "U+A7BD",
     "U+A7BE", "U+A7BF", "U+A7C0", "U+A7C1", "U+A7C2", "U+A7C3", "U+A7C4", "U+A7C5", "U+A7C6",
     "U+A7C7", "U+A7C8", "U+A7C9", "U+A7CA", "U+A7CB", "U+A7CC", "U+A7CD", "U+A7CE", "U+A7CF",
     "U+A7D0", "U+A7D1", "U+A7D2", "U+A7D3", "U+A7D4", "U+A7D5", "U+A7D6", "U+A7D7", "U+A7D8",
     "U+A7D9", "U+A7DA", "U+A7DB", "U+A7DC", "U+A7F1", "U+A7F2", "U+A7F3", "U+A7F4", "U+A7F5",
     "U+A7F6", "U+A7F8", "U+A7F9", "U+A7FA", "U+AB30", "U+AB31", "U+AB32", "U+AB33", "U+AB34",
     "U+AB35", "U+AB36", "U+AB37", "U+AB38", "U+AB39", "U+AB3A", "U+AB3B", "U+AB3C", "U+AB3D",
     "U+AB3E", "U+AB3F", "U+AB40", "U+AB41", "U+AB42", "U+AB43", "U+AB44", "U+AB45", "U+AB46",
     "U+AB47", "U+AB48", "U+AB49", "U+AB4A", "U+AB4B", "U+AB4C", "U+AB4D", "U+AB4E", "U+AB4F",
     "U+AB50", "U+AB51", "U+AB52", "U+AB53", "U+AB54", "U+AB55", "U+AB56", "U+AB57", "U+AB58",
     "U+AB59", "U+AB5A", "U+AB5C", "U+AB5D", "U+AB5E", "U+AB5F", "U+AB60", "U+AB61", "U+AB62",
     "U+AB63", "U+AB64", "U+AB65", "U+AB66", "U+AB67", "U+AB68", "U+AB69", "U+AB70", "U+AB71",
     "U+AB72", "U+AB73", "U+AB74", "U+AB75", "U+AB76", "U+AB77", "U+AB78", "U+AB79", "U+AB7A",
     "U+AB7B", "U+AB7C", "U+AB7D", "U+AB7E", "U+AB7F", "U+AB80", "U+AB81", "U+AB82", "U+AB83",
     "U+AB84", "U+AB85", "U+AB86", "U+AB87", "U+AB88", "U+AB89", "U+AB8A", "U+AB8B", "U+AB8C",
     "U+AB8D", "U+AB8E", "U+AB8F", "U+AB90", "U+AB91", "U+AB92", "U+AB93", "U+AB94", "U+AB95",
     "U+AB96", "U+AB97", "U+AB98", "U+AB99", "U+AB9A", "U+AB9B", "U+AB9C", "U+AB9D", "U+AB9E",
     "U+AB9F", "U+ABA0", "U+ABA1", "U+ABA2", "U+ABA3", "U+ABA4", "U+ABA5", "U+ABA6", "U+ABA7",
     "U+ABA8", "U+ABA9", "U+ABAA", "U+ABAB", "U+ABAC", "U+ABAD", "U+ABAE", "U+ABAF", "U+ABB0",
     "U+ABB1", "U+ABB2", "U+ABB3", "U+ABB4", "U+ABB5", "U+ABB6", "U+ABB7", "U+ABB8", "U+ABB9",
     "U+ABBA", "U+ABBB", "U+ABBC", "U+ABBD", "U+ABBE", "U+ABBF", "U+FB00", "U+FB01", "U+FB02",
     "U+FB03", "U+FB04", "U+FB05", "U+FB06", "U+FB13", "U+FB14", "U+FB15", "U+FB16", "U+FB17",
     "U+FF21", "U+FF22", "U+FF23", "U+FF24", "U+FF25", "U+FF26", "U+FF27", "U+FF28", "U+FF29",
     "U+FF2A", "U+FF2B", "U+FF2C", "U+FF2D", "U+FF2E", "U+FF2F", "U+FF30", "U+FF31", "U+FF32",
     "U+FF33", "U+FF34", "U+FF35", "U+FF36", "U+FF37", "U+FF38", "U+FF39", "U+FF3A", "U+FF41",
     "U+FF42", "U+FF43", "U+FF44", "U+FF45", "U+FF46", "U+FF47", "U+FF48", "U+FF49", "U+FF4A",
     "U+FF4B", "U+FF4C", "U+FF4D", "U+FF4E", "U+FF4F", "U+FF50", "U+FF51", "U+FF52", "U+FF53",
     "U+FF54", "U+FF55", "U+FF56", "U+FF57", "U+FF58", "U+FF59", "U+FF5A", "U+10400", "U+10401",
     "U+10402", "U+10403", "U+10404", "U+10405", "U+10406", "U+10407", "U+10408", "U+10409",
     "U+1040A", "U+1040B", "U+1040C", "U+1040D", "U+1040E", "U+1040F", "U+10410", "U+10411",
     "U+10412", "U+10413", "U+10414", "U+10415", "U+10416", "U+10417", "U+10418", "U+10419",
     "U+1041A", "U+1041B", "U+1041C", "U+1041D", "U+1041E", "U+1041F", "U+10420", "U+10421",
     "U+10422", "U+10423", "U+10424", "U+10425", "U+10426", "U+10427", "U+10428", "U+10429",
     "U+1042A", "U+1042B", "U+1042C", "U+1042D", "U+1042E", "U+1042F", "U+10430", "U+10431",
     "U+10432", "U+10433", "U+10434", "U+10435", "U+10436", "U+10437", "U+10438", "U+10439",
     "U+1043A", "U+1043B", "U+1043C", "U+1043D", "U+1043E", "U+1043F", "U+10440", "U+10441",
     "U+10442", "U+10443", "U+10444", "U+10445", "U+10446", "U+10447", "U+10448", "U+10449",
     "U+1044A", "U+1044B", "U+1044C", "U+1044D", "U+1044E", "U+1044F", "U+104B0", "U+104B1",
     "U+104B2", "U+104B3", "U+104B4", "U+104B5", "U+104B6", "U+104B7", "U+104B8", "U+104B9",
     "U+104BA", "U+104BB", "U+104BC", "U+104BD", "U+104BE", "U+104BF", "U+104C0", "U+104C1",
     "U+104C2", "U+104C3", "U+104C4", "U+104C5", "U+104C6", "U+104C7", "U+104C8", "U+104C9",
     "U+104CA", "U+104CB", "U+104CC", "U+104CD", "U+104CE", "U+104CF", "U+104D0", "U+104D1",
     "U+104D2", "U+104D3", "U+104D8", "U+104D9", "U+104DA", "U+104DB", "U+104DC", "U+104DD",
     "U+104DE", "U+104DF", "U+104E0", "U+104E1", "U+104E2", "U+104E3", "U+104E4", "U+104E5",
     "U+104E6", "U+104E7", "U+104E8", "U+104E9", "U+104EA", "U+104EB", "U+104EC", "U+104ED",
     "U+104EE", "U+104EF", "U+104F0", "U+104F1", "U+104F2", "U+104F3", "U+104F4", "U+104F5",
     "U+104F6", "U+104F7", "U+104F8", "U+104F9", "U+104FA", "U+104FB", "U+10570", "U+10571",
     "U+10572", "U+10573", "U+10574", "U+10575", "U+10576", "U+10577", "U+10578", "U+10579",
     "U+1057A", "U+1057C", "U+1057D", "U+1057E", "U+1057F", "U+10580", "U+10581", "U+10582",
     "U+10583", "U+10584", "U+10585", "U+10586", "U+10587", "U+10588", "U+10589", "U+1058A",
     "U+1058C", "U+1058D", "U+1058E", "U+1058F", "U+10590", "U+10591", "U+10592", "U+10594",
     "U+10595", "U+10597", "U+10598", "U+10599", "U+1059A", "U+1059B", "U+1059C", "U+1059D",
     "U+1059E", "U+1059F", "U+105A0", "U+105A1", "U+105A3", "U+105A4", "U+105A5", "U+105A6",
     "U+105A7", "U+105A8", "U+105A9", "U+105AA", "U+105AB", "U+105AC", "U+105AD", "U+105AE",
     "U+105AF", "U+105B0", "U+105B1", "U+105B3", "U+105B4", "U+105B5", "U+105B6", "U+105B7",
     "U+105B8", "U+105B9", "U+105BB", "U+105BC", "U+10780", "U+10783", "U+10784", "U+10785",
     "U+10787", "U+10788", "U+10789", "U+1078A", "U+1078B", "U+1078C", "U+1078D", "U+1078E",
     "U+1078F", "U+10790", "U+10791", "U+10792", "U+10793", "U+10794", "U+10795", "U+10796",
     "U+10797", "U+10798", "U+10799", "U+1079A", "U+1079B", "U+1079C", "U+1079D", "U+1079E",
     "U+1079F", "U+107A0", "U+107A1", "U+107A2", "U+107A3", "U+107A4", "U+107A5", "U+107A6",
     "U+107A7", "U+107A8", "U+107A9", "U+107AA", "U+107AB", "U+107AC", "U+107AD", "U+107AE",
     "U+107AF", "U+107B0", "U+107B2", "U+107B3", "U+107B4", "U+107B5", "U+107B6", "U+107B7",
     "U+107B8", "U+107B9", "U+107BA", "U+10C80", "U+10C81", "U+10C82", "U+10C83", "U+10C84",
     "U+10C85", "U+10C86", "U+10C87", "U+10C88", "U+10C89", "U+10C8A", "U+10C8B", "U+10C8C",
     "U+10C8D", "U+10C8E", "U+10C8F", "U+10C90", "U+10C91", "U+10C92", "U+10C93", "U+10C94",
     "U+10C95", "U+10C96", "U+10C97", "U+10C98", "U+10C99", "U+10C9A", "U+10C9B", "U+10C9C",
     "U+10C9D", "U+10C9E", "U+10C9F", "U+10CA0", "U+10CA1", "U+10CA2", "U+10CA3", "U+10CA4",
     "U+10CA5", "U+10CA6", "U+10CA7", "U+10CA8", "U+10CA9", "U+10CAA", "U+10CAB", "U+10CAC",
     "U+10CAD", "U+10CAE", "U+10CAF", "U+10CB0", "U+10CB1", "U+10CB2", "U+10CC0", "U+10CC1",
     "U+10CC2", "U+10CC3", "U+10CC4", "U+10CC5", "U+10CC6", "U+10CC7", "U+10CC8", "U+10CC9",
     "U+10CCA", "U+10CCB", "U+10CCC", "U+10CCD", "U+10CCE", "U+10CCF", "U+10CD0", "U+10CD1",
     "U+10CD2", "U+10CD3", "U+10CD4", "U+10CD5", "U+10CD6", "U+10CD7", "U+10CD8", "U+10CD9",
     "U+10CDA", "U+10CDB", "U+10CDC", "U+10CDD", "U+10CDE", "U+10CDF", "U+10CE0", "U+10CE1",
     "U+10CE2", "U+10CE3", "U+10CE4", "U+10CE5", "U+10CE6", "U+10CE7", "U+10CE8", "U+10CE9",
     "U+10CEA", "U+10CEB", "U+10CEC", "U+10CED", "U+10CEE", "U+10CEF", "U+10CF0", "U+10CF1",
     "U+10CF2", "U+10D50", "U+10D51", "U+10D52", "U+10D53", "U+10D54", "U+10D55", "U+10D56",
     "U+10D57", "U+10D58", "U+10D59", "U+10D5A", "U+10D5B", "U+10D5C", "U+10D5D", "U+10D5E",
     "U+10D5F", "U+10D60", "U+10D61", "U+10D62", "U+10D63", "U+10D64", "U+10D65", "U+10D70",
     "U+10D71", "U+10D72", "U+10D73", "U+10D74", "U+10D75", "U+10D76", "U+10D77", "U+10D78",
     "U+10D79", "U+10D7A", "U+10D7B", "U+10D7C", "U+10D7D", "U+10D7E", "U+10D7F", "U+10D80",
     "U+10D81", "U+10D82", "U+10D83", "U+10D84", "U+10D85", "U+118A0", "U+118A1", "U+118A2",
     "U+118A3", "U+118A4", "U+118A5", "U+118A6", "U+118A7", "U+118A8", "U+118A9", "U+118AA",
     "U+118AB", "U+118AC", "U+118AD", "U+118AE", "U+118AF", "U+118B0", "U+118B1", "U+118B2",
     "U+118B3", "U+118B4", "U+118B5", "U+118B6", "U+118B7", "U+118B8", "U+118B9", "U+118BA",
     "U+118BB", "U+118BC", "U+118BD", "U+118BE", "U+118BF", "U+118C0", "U+118C1", "U+118C2",
     "U+118C3", "U+118C4", "U+118C5", "U+118C6", "U+118C7", "U+118C8", "U+118C9", "U+118CA",
     "U+118CB", "U+118CC", "U+118CD", "U+118CE", "U+118CF", "U+118D0", "U+118D1", "U+118D2",
     "U+118D3", "U+118D4", "U+118D5", "U+118D6", "U+118D7", "U+118D8", "U+118D9", "U+118DA",
     "U+118DB", "U+118DC", "U+118DD", "U+118DE", "U+118DF", "U+16E40", "U+16E41", "U+16E42",
     "U+16E43", "U+16E44", "U+16E45", "U+16E46", "U+16E47", "U+16E48", "U+16E49", "U+16E4A",
     "U+16E4B", "U+16E4C", "U+16E4D", "U+16E4E", "U+16E4F", "U+16E50", "U+16E51", "U+16E52",
     "U+16E53", "U+16E54", "U+16E55", "U+16E56", "U+16E57", "U+16E58", "U+16E59", "U+16E5A",
     "U+16E5B", "U+16E5C", "U+16E5D", "U+16E5E", "U+16E5F", "U+16E60", "U+16E61", "U+16E62",
     "U+16E63", "U+16E64", "U+16E65", "U+16E66", "U+16E67", "U+16E68", "U+16E69", "U+16E6A",
     "U+16E6B", "U+16E6C", "U+16E6D", "U+16E6E", "U+16E6F", "U+16E70", "U+16E71", "U+16E72",
     "U+16E73", "U+16E74", "U+16E75", "U+16E76", "U+16E77", "U+16E78", "U+16E79", "U+16E7A",
     "U+16E7B", "U+16E7C", "U+16E7D", "U+16E7E", "U+16E7F", "U+16EA0", "U+16EA1", "U+16EA2",
     "U+16EA3", "U+16EA4", "U+16EA5", "U+16EA6", "U+16EA7", "U+16EA8", "U+16EA9", "U+16EAA",
     "U+16EAB", "U+16EAC", "U+16EAD", "U+16EAE", "U+16EAF", "U+16EB0", "U+16EB1", "U+16EB2",
     "U+16EB3", "U+16EB4", "U+16EB5", "U+16EB6", "U+16EB7", "U+16EB8", "U+16EBB", "U+16EBC",
     "U+16EBD", "U+16EBE", "U+16EBF", "U+16EC0", "U+16EC1", "U+16EC2", "U+16EC3", "U+16EC4",
     "U+16EC5", "U+16EC6", "U+16EC7", "U+16EC8", "U+16EC9", "U+16ECA", "U+16ECB", "U+16ECC",
     "U+16ECD", "U+16ECE", "U+16ECF", "U+16ED0", "U+16ED1", "U+16ED2", "U+16ED3", "U+1D400",
     "U+1D401", "U+1D402", "U+1D403", "U+1D404", "U+1D405", "U+1D406", "U+1D407", "U+1D408",
     "U+1D409", "U+1D40A", "U+1D40B", "U+1D40C", "U+1D40D", "U+1D40E", "U+1D40F", "U+1D410",
     "U+1D411", "U+1D412", "U+1D413", "U+1D414", "U+1D415", "U+1D416", "U+1D417", "U+1D418",
     "U+1D419", "U+1D41A", "U+1D41B", "U+1D41C", "U+1D41D", "U+1D41E", "U+1D41F", "U+1D420",
     "U+1D421", "U+1D422", "U+1D423", "U+1D424", "U+1D425", "U+1D426", "U+1D427", "U+1D428",
     "U+1D429", "U+1D42A", "U+1D42B", "U+1D42C", "U+1D42D", "U+1D42E", "U+1D42F", "U+1D430",
     "U+1D431", "U+1D432", "U+1D433", "U+1D434", "U+1D435", "U+1D436", "U+1D437", "U+1D438",
     "U+1D439", "U+1D43A", "U+1D43B", "U+1D43C", "U+1D43D", "U+1D43E", "U+1D43F", "U+1D440",
     "U+1D441", "U+1D442", "U+1D443", "U+1D444", "U+1D445", "U+1D446", "U+1D447", "U+1D448",
     "U+1D449", "U+1D44A", "U+1D44B", "U+1D44C", "U+1D44D", "U+1D44E", "U+1D44F", "U+1D450",
     "U+1D451", "U+1D452", "U+1D453", "U+1D454", "U+1D456", "U+1D457", "U+1D458", "U+1D459",
     "U+1D45A", "U+1D45B", "U+1D45C", "U+1D45D", "U+1D45E", "U+1D45F", "U+1D460", "U+1D461",
     "U+1D462", "U+1D463", "U+1D464", "U+1D465", "U+1D466", "U+1D467", "U+1D468", "U+1D469",
     "U+1D46A", "U+1D46B", "U+1D46C", "U+1D46D", "U+1D46E", "U+1D46F", "U+1D470", "U+1D471",
     "U+1D472", "U+1D473", "U+1D474", "U+1D475", "U+1D476", "U+1D477", "U+1D478", "U+1D479",
     "U+1D47A", "U+1D47B", "U+1D47C", "U+1D47D", "U+1D47E", "U+1D47F", "U+1D480", "U+1D481",
     "U+1D482", "U+1D483", "U+1D484", "U+1D485", "U+1D486", "U+1D487", "U+1D488", "U+1D489",
     "U+1D48A", "U+1D48B", "U+1D48C", "U+1D48D", "U+1D48E", "U+1D48F", "U+1D490", "U+1D491",
     "U+1D492", "U+1D493", "U+1D494", "U+1D495", "U+1D496", "U+1D497", "U+1D498", "U+1D499",
     "U+1D49A", "U+1D49B", "U+1D49C", "U+1D49E", "U+1D49F", "U+1D4A2", "U+1D4A5", "U+1D4A6",
     "U+1D4A9", "U+1D4AA", "U+1D4AB", "U+1D4AC", "U+1D4AE", "U+1D4AF", "U+1D4B0", "U+1D4B1",
     "U+1D4B2", "U+1D4B3", "U+1D4B4", "U+1D4B5", "U+1D4B6", "U+1D4B7", "U+1D4B8", "U+1D4B9",
     "U+1D4BB", "U+1D4BD", "U+1D4BE", "U+1D4BF", "U+1D4C0", "U+1D4C1", "U+1D4C2", "U+1D4C3",
     "U+1D4C5", "U+1D4C6", "U+1D4C7", "U+1D4C8", "U+1D4C9", "U+1D4CA", "U+1D4CB", "U+1D4CC",
     "U+1D4CD", "U+1D4CE", "U+1D4CF", "U+1D4D0", "U+1D4D1", "U+1D4D2", "U+1D4D3", "U+1D4D4",
     "U+1D4D5", "U+1D4D6", "U+1D4D7", "U+1D4D8", "U+1D4D9", "U+1D4DA", "U+1D4DB", "U+1D4DC",
     "U+1D4DD", "U+1D4DE", "U+1D4DF", "U+1D4E0", "U+1D4E1", "U+1D4E2", "U+1D4E3", "U+1D4E4",
     "U+1D4E5", "U+1D4E6", "U+1D4E7", "U+1D4E8", "U+1D4E9", "U+1D4EA", "U+1D4EB", "U+1D4EC",
     "U+1D4ED", "U+1D4EE", "U+1D4EF", "U+1D4F0", "U+1D4F1", "U+1D4F2", "U+1D4F3", "U+1D4F4",
     "U+1D4F5", "U+1D4F6", "U+1D4F7", "U+1D4F8", "U+1D4F9", "U+1D4FA", "U+1D4FB", "U+1D4FC",
     "U+1D4FD", "U+1D4FE", "U+1D4FF", "U+1D500", "U+1D501", "U+1D502", "U+1D503", "U+1D504",
     "U+1D505", "U+1D507", "U+1D508", "U+1D509", "U+1D50A", "U+1D50D", "U+1D50E", "U+1D50F",
     "U+1D510", "U+1D511", "U+1D512", "U+1D513", "U+1D514", "U+1D516", "U+1D517", "U+1D518",
     "U+1D519", "U+1D51A", "U+1D51B", "U+1D51C", "U+1D51E", "U+1D51F", "U+1D520", "U+1D521",
     "U+1D522", "U+1D523", "U+1D524", "U+1D525", "U+1D526", "U+1D527", "U+1D528", "U+1D529",
     "U+1D52A", "U+1D52B", "U+1D52C", "U+1D52D", "U+1D52E", "U+1D52F", "U+1D530", "U+1D531",
     "U+1D532", "U+1D533", "U+1D534", "U+1D535", "U+1D536", "U+1D537", "U+1D538", "U+1D539",
     "U+1D53B", "U+1D53C", "U+1D53D", "U+1D53E", "U+1D540", "U+1D541", "U+1D542", "U+1D543",
     "U+1D544", "U+1D546", "U+1D54A", "U+1D54B", "U+1D54C", "U+1D54D", "U+1D54E", "U+1D54F",
     "U+1D550", "U+1D552", "U+1D553", "U+1D554", "U+1D555", "U+1D556", "U+1D557", "U+1D558",
     "U+1D559", "U+1D55A", "U+1D55B", "U+1D55C", "U+1D55D", "U+1D55E", "U+1D55F", "U+1D560",
     "U+1D561", "U+1D562", "U+1D563", "U+1D564", "U+1D565", "U+1D566", "U+1D567", "U+1D568",
     "U+1D569", "U+1D56A", "U+1D56B", "U+1D56C", "U+1D56D", "U+1D56E", "U+1D56F", "U+1D570",
     "U+1D571", "U+1D572", "U+1D573", "U+1D574", "U+1D575", "U+1D576", "U+1D577", "U+1D578",
     "U+1D579", "U+1D57A", "U+1D57B", "U+1D57C", "U+1D57D", "U+1D57E", "U+1D57F", "U+1D580",
     "U+1D581", "U+1D582", "U+1D583", "U+1D584", "U+1D585", "U+1D586", "U+1D587", "U+1D588",
     "U+1D589", "U+1D58A", "U+1D58B", "U+1D58C", "U+1D58D", "U+1D58E", "U+1D58F", "U+1D590",
     "U+1D591", "U+1D592", "U+1D593", "U+1D594", "U+1D595", "U+1D596", "U+1D597", "U+1D598",
     "U+1D599", "U+1D59A", "U+1D59B", "U+1D59C", "U+1D59D", "U+1D59E", "U+1D59F", "U+1D5A0",
     "U+1D5A1", "U+1D5A2", "U+1D5A3", "U+1D5A4", "U+1D5A5", "U+1D5A6", "U+1D5A7", "U+1D5A8",
     "U+1D5A9", "U+1D5AA", "U+1D5AB", "U+1D5AC", "U+1D5AD", "U+1D5AE", "U+1D5AF", "U+1D5B0",
     "U+1D5B1", "U+1D5B2", "U+1D5B3", "U+1D5B4", "U+1D5B5", "U+1D5B6", "U+1D5B7", "U+1D5B8",
     "U+1D5B9", "U+1D5BA", "U+1D5BB", "U+1D5BC", "U+1D5BD", "U+1D5BE", "U+1D5BF", "U+1D5C0",
     "U+1D5C1", "U+1D5C2", "U+1D5C3", "U+1D5C4", "U+1D5C5", "U+1D5C6", "U+1D5C7", "U+1D5C8",
     "U+1D5C9", "U+1D5CA", "U+1D5CB", "U+1D5CC", "U+1D5CD", "U+1D5CE", "U+1D5CF", "U+1D5D0",
     "U+1D5D1", "U+1D5D2", "U+1D5D3", "U+1D5D4", "U+1D5D5", "U+1D5D6", "U+1D5D7", "U+1D5D8",
     "U+1D5D9", "U+1D5DA", "U+1D5DB", "U+1D5DC", "U+1D5DD", "U+1D5DE", "U+1D5DF", "U+1D5E0",
     "U+1D5E1", "U+1D5E2", "U+1D5E3", "U+1D5E4", "U+1D5E5", "U+1D5E6", "U+1D5E7", "U+1D5E8",
     "U+1D5E9", "U+1D5EA", "U+1D5EB", "U+1D5EC", "U+1D5ED", "U+1D5EE", "U+1D5EF", "U+1D5F0",
     "U+1D5F1", "U+1D5F2", "U+1D5F3", "U+1D5F4", "U+1D5F5", "U+1D5F6", "U+1D5F7", "U+1D5F8",
     "U+1D5F9", "U+1D5FA", "U+1D5FB", "U+1D5FC", "U+1D5FD", "U+1D5FE", "U+1D5FF", "U+1D600",
     "U+1D601", "U+1D602", "U+1D603", "U+1D604", "U+1D605", "U+1D606", "U+1D607", "U+1D608",
     "U+1D609", "U+1D60A", "U+1D60B", "U+1D60C", "U+1D60D", "U+1D60E", "U+1D60F", "U+1D610",
     "U+1D611", "U+1D612", "U+1D613", "U+1D614", "U+1D615", "U+1D616", "U+1D617", "U+1D618",
     "U+1D619", "U+1D61A", "U+1D61B", "U+1D61C", "U+1D61D", "U+1D61E", "U+1D61F", "U+1D620",
     "U+1D621", "U+1D622", "U+1D623", "U+1D624", "U+1D625", "U+1D626", "U+1D627", "U+1D628",
     "U+1D629", "U+1D62A", "U+1D62B", "U+1D62C", "U+1D62D", "U+1D62E", "U+1D62F", "U+1D630",
     "U+1D631", "U+1D632", "U+1D633", "U+1D634", "U+1D635", "U+1D636", "U+1D637", "U+1D638",
     "U+1D639", "U+1D63A", "U+1D63B", "U+1D63C", "U+1D63D", "U+1D63E", "U+1D63F", "U+1D640",
     "U+1D641", "U+1D642", "U+1D643", "U+1D644", "U+1D645", "U+1D646", "U+1D647", "U+1D648",
     "U+1D649", "U+1D64A", "U+1D64B", "U+1D64C", "U+1D64D", "U+1D64E", "U+1D64F", "U+1D650",
     "U+1D651", "U+1D652", "U+1D653", "U+1D654", "U+1D655", "U+1D656", "U+1D657", "U+1D658",
     "U+1D659", "U+1D65A", "U+1D65B", "U+1D65C", "U+1D65D", "U+1D65E", "U+1D65F", "U+1D660",
     "U+1D661", "U+1D662", "U+1D663", "U+1D664", "U+1D665", "U+1D666", "U+1D667", "U+1D668",
     "U+1D669", "U+1D66A", "U+1D66B", "U+1D66C", "U+1D66D", "U+1D66E", "U+1D66F", "U+1D670",
     "U+1D671", "U+1D672", "U+1D673", "U+1D674", "U+1D675", "U+1D676", "U+1D677", "U+1D678",
     "U+1D679", "U+1D67A", "U+1D67B", "U+1D67C", "U+1D67D", "U+1D67E", "U+1D67F", "U+1D680",
     "U+1D681", "U+1D682", "U+1D683", "U+1D684", "U+1D685", "U+1D686", "U+1D687", "U+1D688",
     "U+1D689", "U+1D68A", "U+1D68B", "U+1D68C", "U+1D68D", "U+1D68E", "U+1D68F", "U+1D690",
     "U+1D691", "U+1D692", "U+1D693", "U+1D694", "U+1D695", "U+1D696", "U+1D697", "U+1D698",
     "U+1D699", "U+1D69A", "U+1D69B", "U+1D69C", "U+1D69D", "U+1D69E", "U+1D69F", "U+1D6A0",
     "U+1D6A1", "U+1D6A2", "U+1D6A3", "U+1D6A4", "U+1D6A5", "U+1D6A8", "U+1D6A9", "U+1D6AA",
     "U+1D6AB", "U+1D6AC", "U+1D6AD", "U+1D6AE", "U+1D6AF", "U+1D6B0", "U+1D6B1", "U+1D6B2",
     "U+1D6B3", "U+1D6B4", "U+1D6B5", "U+1D6B6", "U+1D6B7", "U+1D6B8", "U+1D6B9", "U+1D6BA",
     "U+1D6BB", "U+1D6BC", "U+1D6BD", "U+1D6BE", "U+1D6BF", "U+1D6C0", "U+1D6C2", "U+1D6C3",
     "U+1D6C4", "U+1D6C5", "U+1D6C6", "U+1D6C7", "U+1D6C8", "U+1D6C9", "U+1D6CA", "U+1D6CB",
     "U+1D6CC", "U+1D6CD", "U+1D6CE", "U+1D6CF", "U+1D6D0", "U+1D6D1", "U+1D6D2", "U+1D6D3",
     "U+1D6D4", "U+1D6D5", "U+1D6D6", "U+1D6D7", "U+1D6D8", "U+1D6D9", "U+1D6DA", "U+1D6DC",
     "U+1D6DD", "U+1D6DE", "U+1D6DF", "U+1D6E0", "U+1D6E1", "U+1D6E2", "U+1D6E3", "U+1D6E4",
     "U+1D6E5", "U+1D6E6", "U+1D6E7", "U+1D6E8", "U+1D6E9", "U+1D6EA", "U+1D6EB", "U+1D6EC",
     "U+1D6ED", "U+1D6EE", "U+1D6EF", "U+1D6F0", "U+1D6F1", "U+1D6F2", "U+1D6F3", "U+1D6F4",
     "U+1D6F5", "U+1D6F6", "U+1D6F7", "U+1D6F8", "U+1D6F9", "U+1D6FA", "U+1D6FC", "U+1D6FD",
     "U+1D6FE", "U+1D6FF", "U+1D700", "U+1D701", "U+1D702", "U+1D703", "U+1D704", "U+1D705",
     "U+1D706", "U+1D707", "U+1D708", "U+1D709", "U+1D70A", "U+1D70B", "U+1D70C", "U+1D70D",
     "U+1D70E", "U+1D70F", "U+1D710", "U+1D711", "U+1D712", "U+1D713", "U+1D714", "U+1D716",
     "U+1D717", "U+1D718", "U+1D719", "U+1D71A", "U+1D71B", "U+1D71C", "U+1D71D", "U+1D71E",
     "U+1D71F", "U+1D720", "U+1D721", "U+1D722", "U+1D723", "U+1D724", "U+1D725", "U+1D726",
     "U+1D727", "U+1D728", "U+1D729", "U+1D72A", "U+1D72B", "U+1D72C", "U+1D72D", "U+1D72E",
     "U+1D72F", "U+1D730", "U+1D731", "U+1D732", "U+1D733", "U+1D734", "U+1D736", "U+1D737",
     "U+1D738", "U+1D739", "U+1D73A", "U+1D73B", "U+1D73C", "U+1D73D", "U+1D73E", "U+1D73F",
     "U+1D740", "U+1D741", "U+1D742", "U+1D743", "U+1D744", "U+1D745", "U+1D746", "U+1D747",
     "U+1D748", "U+1D749", "U+1D74A", "U+1D74B", "U+1D74C", "U+1D74D", "U+1D74E", "U+1D750",
     "U+1D751", "U+1D752", "U+1D753", "U+1D754", "U+1D755", "U+1D756", "U+1D757", "U+1D758",
     "U+1D759", "U+1D75A", "U+1D75B", "U+1D75C", "U+1D75D", "U+1D75E", "U+1D75F", "U+1D760",
     "U+1D761", "U+1D762", "U+1D763", "U+1D764", "U+1D765", "U+1D766", "U+1D767", "U+1D768",
     "U+1D769", "U+1D76A", "U+1D76B", "U+1D76C", "U+1D76D", "U+1D76E", "U+1D770", "U+1D771",
     "U+1D772", "U+1D773", "U+1D774", "U+1D775", "U+1D776", "U+1D777", "U+1D778", "U+1D779",
     "U+1D77A", "U+1D77B", "U+1D77C", "U+1D77D", "U+1D77E", "U+1D77F", "U+1D780", "U+1D781",
     "U+1D782", "U+1D783", "U+1D784", "U+1D785", "U+1D786", "U+1D787", "U+1D788", "U+1D78A",
     "U+1D78B", "U+1D78C", "U+1D78D", "U+1D78E", "U+1D78F", "U+1D790", "U+1D791", "U+1D792",
     "U+1D793", "U+1D794", "U+1D795", "U+1D796", "U+1D797", "U+1D798", "U+1D799", "U+1D79A",
     "U+1D79B", "U+1D79C", "U+1D79D", "U+1D79E", "U+1D79F", "U+1D7A0", "U+1D7A1", "U+1D7A2",
     "U+1D7A3", "U+1D7A4", "U+1D7A5", "U+1D7A6", "U+1D7A7", "U+1D7A8", "U+1D7AA", "U+1D7AB",
     "U+1D7AC", "U+1D7AD", "U+1D7AE", "U+1D7AF", "U+1D7B0", "U+1D7B1", "U+1D7B2", "U+1D7B3",
     "U+1D7B4", "U+1D7B5", "U+1D7B6", "U+1D7B7", "U+1D7B8", "U+1D7B9", "U+1D7BA", "U+1D7BB",
     "U+1D7BC", "U+1D7BD", "U+1D7BE", "U+1D7BF", "U+1D7C0", "U+1D7C1", "U+1D7C2", "U+1D7C4",
     "U+1D7C5", "U+1D7C6", "U+1D7C7", "U+1D7C8", "U+1D7C9", "U+1D7CA", "U+1D7CB", "U+1DF00",
     "U+1DF01", "U+1DF02", "U+1DF03", "U+1DF04", "U+1DF05", "U+1DF06", "U+1DF07", "U+1DF08",
     "U+1DF09", "U+1DF0B", "U+1DF0C", "U+1DF0D", "U+1DF0E", "U+1DF0F", "U+1DF10", "U+1DF11",
     "U+1DF12", "U+1DF13", "U+1DF14", "U+1DF15", "U+1DF16", "U+1DF17", "U+1DF18", "U+1DF19",
     "U+1DF1A", "U+1DF1B", "U+1DF1C", "U+1DF1D", "U+1DF1E", "U+1DF25", "U+1DF26", "U+1DF27",
     "U+1DF28", "U+1DF29", "U+1DF2A", "U+1E030", "U+1E031", "U+1E032", "U+1E033", "U+1E034",
     "U+1E035", "U+1E036", "U+1E037", "U+1E038", "U+1E039", "U+1E03A", "U+1E03B", "U+1E03C",
     "U+1E03D", "U+1E03E", "U+1E03F", "U+1E040", "U+1E041", "U+1E042", "U+1E043", "U+1E044",
     "U+1E045", "U+1E046", "U+1E047", "U+1E048", "U+1E049", "U+1E04A", "U+1E04B", "U+1E04C",
     "U+1E04D", "U+1E04E", "U+1E04F", "U+1E050", "U+1E051", "U+1E052", "U+1E053", "U+1E054",
     "U+1E055", "U+1E056", "U+1E057", "U+1E058", "U+1E059", "U+1E05A", "U+1E05B", "U+1E05C",
     "U+1E05D", "U+1E05E", "U+1E05F", "U+1E060", "U+1E061", "U+1E062", "U+1E063", "U+1E064",
     "U+1E065", "U+1E066", "U+1E067", "U+1E068", "U+1E069", "U+1E06A", "U+1E06B", "U+1E06C",
     "U+1E06D", "U+1E900", "U+1E901", "U+1E902", "U+1E903", "U+1E904", "U+1E905", "U+1E906",
     "U+1E907", "U+1E908", "U+1E909", "U+1E90A", "U+1E90B", "U+1E90C", "U+1E90D", "U+1E90E",
     "U+1E90F", "U+1E910", "U+1E911", "U+1E912", "U+1E913", "U+1E914", "U+1E915", "U+1E916",
     "U+1E917", "U+1E918", "U+1E919", "U+1E91A", "U+1E91B", "U+1E91C", "U+1E91D", "U+1E91E",
     "U+1E91F", "U+1E920", "U+1E921", "U+1E922", "U+1E923", "U+1E924", "U+1E925", "U+1E926",
     "U+1E927", "U+1E928", "U+1E929", "U+1E92A", "U+1E92B", "U+1E92C", "U+1E92D", "U+1E92E",
     "U+1E92F", "U+1E930", "U+1E931", "U+1E932", "U+1E933", "U+1E934", "U+1E935", "U+1E936",
     "U+1E937", "U+1E938", "U+1E939", "U+1E93A", "U+1E93B", "U+1E93C", "U+1E93D", "U+1E93E",
     "U+1E93F", "U+1E940", "U+1E941", "U+1E942", "U+1E943", "U+1F130", "U+1F131", "U+1F132",
     "U+1F133", "U+1F134", "U+1F135", "U+1F136", "U+1F137", "U+1F138", "U+1F139", "U+1F13A",
     "U+1F13B", "U+1F13C", "U+1F13D", "U+1F13E", "U+1F13F", "U+1F140", "U+1F141", "U+1F142",
     "U+1F143", "U+1F144", "U+1F145", "U+1F146", "U+1F147", "U+1F148", "U+1F149", "U+1F150",
     "U+1F151", "U+1F152", "U+1F153", "U+1F154", "U+1F155", "U+1F156", "U+1F157", "U+1F158",
     "U+1F159", "U+1F15A", "U+1F15B", "U+1F15C", "U+1F15D", "U+1F15E", "U+1F15F", "U+1F160",
     "U+1F161", "U+1F162", "U+1F163", "U+1F164", "U+1F165", "U+1F166", "U+1F167", "U+1F168",
     "U+1F169", "U+1F170", "U+1F171", "U+1F172", "U+1F173", "U+1F174", "U+1F175", "U+1F176",
     "U+1F177", "U+1F178", "U+1F179", "U+1F17A", "U+1F17B", "U+1F17C", "U+1F17D", "U+1F17E",
     "U+1F17F", "U+1F180", "U+1F181", "U+1F182", "U+1F183", "U+1F184", "U+1F185", "U+1F186",
     "U+1F187", "U+1F188", "U+1F189"
    }

\* core::unicode::Case_Ignorable: the characters with the property
\* Case_Ignorable of Unicode 17.0 (U+1171E is a spacing mark since 16.0).
CaseIgnorableChars ==
    {
     "'", ".", ":", "^", GRAVE, "U+00A8", "U+00AD", "U+00AF", "U+00B4", "U+00B7", "U+00B8",
     "U+02B0", "U+02B1", "U+02B2", "U+02B3", "U+02B4", "U+02B5", "U+02B6", "U+02B7", "U+02B8",
     "U+02B9", "U+02BA", "U+02BB", "U+02BC", "U+02BD", "U+02BE", "U+02BF", "U+02C0", "U+02C1",
     "U+02C2", "U+02C3", "U+02C4", "U+02C5", "U+02C6", "U+02C7", "U+02C8", "U+02C9", "U+02CA",
     "U+02CB", "U+02CC", "U+02CD", "U+02CE", "U+02CF", "U+02D0", "U+02D1", "U+02D2", "U+02D3",
     "U+02D4", "U+02D5", "U+02D6", "U+02D7", "U+02D8", "U+02D9", "U+02DA", "U+02DB", "U+02DC",
     "U+02DD", "U+02DE", "U+02DF", "U+02E0", "U+02E1", "U+02E2", "U+02E3", "U+02E4", "U+02E5",
     "U+02E6", "U+02E7", "U+02E8", "U+02E9", "U+02EA", "U+02EB", "U+02EC", "U+02ED", "U+02EE",
     "U+02EF", "U+02F0", "U+02F1", "U+02F2", "U+02F3", "U+02F4", "U+02F5", "U+02F6", "U+02F7",
     "U+02F8", "U+02F9", "U+02FA", "U+02FB", "U+02FC", "U+02FD", "U+02FE", "U+02FF", "U+0300",
     "U+0301", "U+0302", "U+0303", "U+0304", "U+0305", "U+0306", "U+0307", "U+0308", "U+0309",
     "U+030A", "U+030B", "U+030C", "U+030D", "U+030E", "U+030F", "U+0310", "U+0311", "U+0312",
     "U+0313", "U+0314", "U+0315", "U+0316", "U+0317", "U+0318", "U+0319", "U+031A", "U+031B",
     "U+031C", "U+031D", "U+031E", "U+031F", "U+0320", "U+0321", "U+0322", "U+0323", "U+0324",
     "U+0325", "U+0326", "U+0327", "U+0328", "U+0329", "U+032A", "U+032B", "U+032C", "U+032D",
     "U+032E", "U+032F", "U+0330", "U+0331", "U+0332", "U+0333", "U+0334", "U+0335", "U+0336",
     "U+0337", "U+0338", "U+0339", "U+033A", "U+033B", "U+033C", "U+033D", "U+033E", "U+033F",
     "U+0340", "U+0341", "U+0342", "U+0343", "U+0344", "U+0345", "U+0346", "U+0347", "U+0348",
     "U+0349", "U+034A", "U+034B", "U+034C", "U+034D", "U+034E", "U+034F", "U+0350", "U+0351",
     "U+0352", "U+0353", "U+0354", "U+0355", "U+0356", "U+0357", "U+0358", "U+0359", "U+035A",
     "U+035B", "U+035C", "U+035D", "U+035E", "U+035F", "U+0360", "U+0361", "U+0362", "U+0363",
     "U+0364", "U+0365", "U+0366", "U+0367", "U+0368", "U+0369", "U+036A", "U+036B", "U+036C",
     "U+036D", "U+036E", "U+036F", "U+0374", "U+0375", "U+037A", "U+0384", "U+0385", "U+0387",
     "U+0483", "U+0484", "U+0485", "U+0486", "U+0487", "U+0488", "U+0489", "U+0559", "U+055F",
     "U+0591", "U+0592", "U+0593", "U+0594", "U+0595", "U+0596", "U+0597", "U+0598", "U+0599",
     "U+059A", "U+059B", "U+059C", "U+059D", "U+059E", "U+059F", "U+05A0", "U+05A1", "U+05A2",
     "U+05A3", "U+05A4", "U+05A5", "U+05A6", "U+05A7", "U+05A8", "U+05A9", "U+05AA", "U+05AB",
     "U+05AC", "U+05AD", "U+05AE", "U+05AF", "U+05B0", "U+05B1", "U+05B2", "U+05B3", "U+05B4",
     "U+05B5", "U+05B6", "U+05B7", "U+05B8", "U+05B9", "U+05BA", "U+05BB", "U+05BC", "U+05BD",
     "U+05BF", "U+05C1", "U+05C2", "U+05C4", "U+05C5", "U+05C7", "U+05F4", "U+0600", "U+0601",
     "U+0602", "U+0603", "U+0604", "U+0605", "U+0610", "U+0611", "U+0612", "U+0613", "U+0614",
     "U+0615", "U+0616", "U+0617", "U+0618", "U+0619", "U+061A", "U+061C", "U+0640", "U+064B",
     "U+064C", "U+064D", "U+064E", "U+064F", "U+0650", "U+0651", "U+0652", "U+0653", "U+0654",
     "U+0655", "U+0656", "U+0657", "U+0658", "U+0659", "U+065A", "U+065B", "U+065C", "U+065D",
     "U+065E", "U+065F", "U+0670", "U+06D6", "U+06D7", "U+06D8", "U+06D9", "U+06DA", "U+06DB",
     "U+06DC", "U+06DD", "U+06DF", "U+06E0", "U+06E1", "U+06E2", "U+06E3", "U+06E4", "U+06E5",
     "U+06E6", "U+06E7", "U+06E8", "U+06EA", "U+06EB", "U+06EC", "U+06ED", "U+070F", "U+0711",
     "U+0730", "U+0731", "U+0732", "U+0733", "U+0734", "U+0735", "U+0736", "U+0737", "U+0738",
     "U+0739", "U+073A", "U+073B", "U+073C", "U+073D", "U+073E", "U+073F", "U+0740", "U+0741",
     "U+0742", "U+0743", "U+0744", "U+0745", "U+0746", "U+0747", "U+0748", "U+0749", "U+074A",
     "U+07A6", "U+07A7", "U+07A8", "U+07A9", "U+07AA", "U+07AB", "U+07AC", "U+07AD", "U+07AE",
     "U+07AF", "U+07B0", "U+07EB", "U+07EC", "U+07ED", "U+07EE", "U+07EF", "U+07F0", "U+07F1",
     "U+07F2", "U+07F3", "U+07F4", "U+07F5", "U+07FA", "U+07FD", "U+0816", "U+0817", "U+0818",
     "U+0819", "U+081A", "U+081B", "U+081C", "U+081D", "U+081E", "U+081F", "U+0820", "U+0821",
     "U+0822", "U+0823", "U+0824", "U+0825", "U+0826", "U+0827", "U+0828", "U+0829", "U+082A",
     "U+082B", "U+082C", "U+082D", "U+0859", "U+085A", "U+085B", "U+0888", "U+0890", "U+0891",
     "U+0897", "U+0898", "U+0899", "U+089A", "U+089B", "U+089C", "U+089D", "U+089E", "U+089F",
     "U+08C9", "U+08CA", "U+08CB", "U+08CC", "U+08CD", "U+08CE", "U+08CF", "U+08D0", "U+08D1",
     "U+08D2", "U+08D3", "U+08D4", "U+08D5", "U+08D6", "U+08D7", "U+08D8", "U+08D9", "U+08DA",
     "U+08DB", "U+08DC", "U+08DD", "U+08DE", "U+08DF", "U+08E0", "U+08E1", "U+08E2", "U+08E3",
     "U+08E4", "U+08E5", "U+08E6", "U+08E7", "U+08E8", "U+08E9", "U+08EA", "U+08EB", "U+08EC",
     "U+08ED", "U+08EE", "U+08EF", "U+08F0", "U+08F1", "U+08F2", "U+08F3", "U+08F4", "U+08F5",
     "U+08F6", "U+08F7", "U+08F8", "U+08F9", "U+08FA", "U+08FB", "U+08FC", "U+08FD", "U+08FE",
     "U+08FF", "U+0900", "U+0901", "U+0902", "U+093A", "U+093C", "U+0941", "U+0942", "U+0943",
     "U+0944", "U+0945", "U+0946", "U+0947", "U+0948", "U+094D", "U+0951", "U+0952", "U+0953",
     "U+0954", "U+0955", "U+0956", "U+0957", "U+0962", "U+0963", "U+0971", "U+0981", "U+09BC",
     "U+09C1", "U+09C2", "U+09C3", "U+09C4", "U+09CD", "U+09E2", "U+09E3", "U+09FE", "U+0A01",
     "U+0A02", "U+0A3C", "U+0A41", "U+0A42", "U+0A47", "U+0A48", "U+0A4B", "U+0A4C", "U+0A4D",
     "U+0A51", "U+0A70", "U+0A71", "U+0A75", "U+0A81", "U+0A82", "U+0ABC", "U+0AC1", "U+0AC2",
     "U+0AC3", "U+0AC4", "U+0AC5", "U+0AC7", "U+0AC8", "U+0ACD", "U+0AE2", "U+0AE3", "U+0AFA",
     "U+0AFB", "U+0AFC", "U+0AFD", "U+0AFE", "U+0AFF", "U+0B01", "U+0B3C", "U+0B3F", "U+0B41",
     "U+0B42", "U+0B43", "U+0B44", "U+0B4D", "U+0B55", "U+0B56", "U+0B62", "U+0B63", "U+0B82",
     "U+0BC0", "U+0BCD", "U+0C00", "U+0C04", "U+0C3C", "U+0C3E", "U+0C3F", "U+0C40", "U+0C46",
     "U+0C47", "U+0C48", "U+0C4A", "U+0C4B", "U+0C4C", "U+0C4D", "U+0C55", "U+0C56", "U+0C62",
     "U+0C63", "U+0C81", "U+0CBC", "U+0CBF", "U+0CC6", "U+0CCC", "U+0CCD", "U+0CE2", "U+0CE3",
     "U+0D00", "U+0D01", "U+0D3B", "U+0D3C", "U+0D41", "U+0D42", "U+0D43", "U+0D44", "U+0D4D",
     "U+0D62", "U+0D63", "U+0D81", "U+0DCA", "U+0DD2", "U+0DD3", "U+0DD4", "U+0DD6", "U+0E31",
     "U+0E34", "U+0E35", "U+0E36", "U+0E37", "U+0E38", "U+0E39", "U+0E3A", "U+0E46", "U+0E47",
     "U+0E48", "U+0E49", "U+0E4A", "U+0E4B", "U+0E4C", "U+0E4D", "U+0E4E", "U+0EB1", "U+0EB4",
     "U+0EB5", "U+0EB6", "U+0EB7", "U+0EB8", "U+0EB9", "U+0EBA", "U+0EBB", "U+0EBC", "U+0EC6",
     "U+0EC8", "U+0EC9", "U+0ECA", "U+0ECB", "U+0ECC", "U+0ECD", "U+0ECE", "U+0F18", "U+0F19",
     "U+0F35", "U+0F37", "U+0F39", "U+0F71", "U+0F72", "U+0F73", "U+0F74", "U+0F75", "U+0F76",
     "U+0F77", "U+0F78", "U+0F79", "U+0F7A", "U+0F7B", "U+0F7C", "U+0F7D", "U+0F7E", "U+0F80",
     "U+0F81", "U+0F82", "U+0F83", "U+0F84", "U+0F86", "U+0F87", "U+0F8D", "U+0F8E", "U+0F8F",
     "U+0F90", "U+0F91", "U+0F92", "U+0F93", "U+0F94", "U+0F95", "U+0F96", "U+0F97", "U+0F99",
     "U+0F9A", "U+0F9B", "U+0F9C", "U+0F9D", "U+0F9E", "U+0F9F", "U+0FA0", "U+0FA1", "U+0FA2",
     "U+0FA3", "U+0FA4", "U+0FA5", "U+0FA6", "U+0FA7", "U+0FA8", "U+0FA9", "U+0FAA", "U+0FAB",
     "U+0FAC", "U+0FAD", "U+0FAE", "U+0FAF", "U+0FB0", "U+0FB1", "U+0FB2", "U+0FB3", "U+0FB4",
     "U+0FB5", "U+0FB6", "U+0FB7", "U+0FB8", "U+0FB9", "U+0FBA", "U+0FBB", "U+0FBC", "U+0FC6",
     "U+102D", "U+102E", "U+102F", "U+1030", "U+1032", "U+1033", "U+1034", "U+1035", "U+1036",
     "U+1037", "U+1039", "U+103A", "U+103D", "U+103E", "U+1058", "U+1059", "U+105E", "U+105F",
     "U+1060", "U+1071", "U+1072", "U+1073", "U+1074", "U+1082", "U+1085", "U+1086", "U+108D",
     "U+109D", "U+10FC", "U+135D", "U+135E", "U+135F", "U+1712", "U+1713", "U+1714", "U+1732",
     "U+1733", "U+1752", "U+1753", "U+1772", "U+1773", "U+17B4", "U+17B5", "U+17B7", "U+17B8",
     "U+17B9", "U+17BA", "U+17BB", "U+17BC", "U+17BD", "U+17C6", "U+17C9", "U+17CA", "U+17CB",
     "U+17CC", "U+17CD", "U+17CE", "U+17CF", "U+17D0", "U+17D1", "U+17D2", "U+17D3", "U+17D7",
     "U+17DD", "U+180B", "U+180C", "U+180D", "U+180E", "U+180F", "U+1843", "U+1885", "U+1886",
     "U+18A9", "U+1920", "U+1921", "U+1922", "U+1927", "U+1928", "U+1932", "U+1939", "U+193A",
     "U+193B", "U+1A17", "U+1A18", "U+1A1B", "U+1A56", "U+1A58", "U+1A59", "U+1A5A", "U+1A5B",
     "U+1A5C", "U+1A5D", "U+1A5E", "U+1A60", "U+1A62", "U+1A65", "U+1A66", "U+1A67", "U+1A68",
     "U+1A69", "U+1A6A", "U+1A6B", "U+1A6C", "U+1A73", "U+1A74", "U+1A75", "U+1A76", "U+1A77",
     "U+1A78", "U+1A79", "U+1A7A", "U+1A7B", "U+1A7C", "U+1A7F", "U+1AA7", "U+1AB0", "U+1AB1",
     "U+1AB2", "U+1AB3", "U+1AB4", "U+1AB5", "U+1AB6", "U+1AB7", "U+1AB8", "U+1AB9", "U+1ABA",
     "U+1ABB", "U+1ABC", "U+1ABD", "U+1ABE", "U+1ABF", "U+1AC0", "U+1AC1", "U+1AC2", "U+1AC3",
     "U+1AC4", "U+1AC5", "U+1AC6", "U+1AC7", "U+1AC8", "U+1AC9", "U+1ACA", "U+1ACB", "U+1ACC",
     "U+1ACD", "U+1ACE", "U+1ACF", "U+1AD0", "U+1AD1", "U+1AD2", "U+1AD3", "U+1AD4", "U+1AD5",
     "U+1AD6", "U+1AD7", "U+1AD8", "U+1AD9", "U+1ADA", "U+1ADB", "U+1ADC", "U+1ADD", "U+1AE0",
     "U+1AE1", "U+1AE2", "U+1AE3", "U+1AE4", "U+1AE5", "U+1AE6", "U+1AE7", "U+1AE8", "U+1AE9",
     "U+1AEA", "U+1AEB", "U+1B00", "U+1B01", "U+1B02", "U+1B03", "U+1B34", "U+1B36", "U+1B37",
     "U+1B38", "U+1B39", "U+1B3A", "U+1B3C", "U+1B42", "U+1B6B", "U+1B6C", "U+1B6D", "U+1B6E",
     "U+1B6F", "U+1B70", "U+1B71", "U+1B72", "U+1B73", "U+1B80", "U+1B81", "U+1BA2", "U+1BA3",
     "U+1BA4", "U+1BA5", "U+1BA8", "U+1BA9", "U+1BAB", "U+1BAC", "U+1BAD", "U+1BE6", "U+1BE8",
     "U+1BE9", "U+1BED", "U+1BEF", "U+1BF0", "U+1BF1", "U+1C2C", "U+1C2D", "U+1C2E", "U+1C2F",
     "U+1C30", "U+1C31", "U+1C32", "U+1C33", "U+1C36", "U+1C37", "U+1C78", "U+1C79", "U+1C7A",
     "U+1C7B", "U+1C7C", "U+1C7D", "U+1CD0", "U+1CD1", "U+1CD2", "U+1CD4", "U+1CD5", "U+1CD6",
     "U+1CD7", "U+1CD8", "U+1CD9", "U+1CDA", "U+1CDB", "U+1CDC", "U+1CDD", "U+1CDE", "U+1CDF",
     "U+1CE0", "U+1CE2", "U+1CE3", "U+1CE4", "U+1CE5", "U+1CE6", "U+1CE7", "U+1CE8", "U+1CED",
     "U+1CF4", "U+1CF8", "U+1CF9", "U+1D2C", "U+1D2D", "U+1D2E", "U+1D2F", "U+1D30", "U+1D31",
     "U+1D32", "U+1D33", "U+1D34", "U+1D35", "U+1D36", "U+1D37", "U+1D38", "U+1D39", "U+1D3A",
     "U+1D3B", "U+1D3C", "U+1D3D", "U+1D3E", "U+1D3F", "U+1D40", "U+1D41", "U+1D42", "U+1D43",
     "U+1D44", "U+1D45", "U+1D46", "U+1D47", "U+1D48", "U+1D49", "U+1D4A", "U+1D4B", "U+1D4C",
     "U+1D4D", "U+1D4E", "U+1D4F", "U+1D50", "U+1D51", "U+1D52", "U+1D53", "U+1D54", "U+1D55",
     "U+1D56", "U+1D57", "U+1D58", "U+1D59", "U+1D5A", "U+1D5B", "U+1D5C", "U+1D5D", "U+1D5E",
     "U+1D5F", "U+1D60", "U+1D61", "U+1D62", "U+1D63", "U+1D64", "U+1D65", "U+1D66", "U+1D67",
     "U+1D68", "U+1D69", "U+1D6A", "U+1D78", "U+1D9B", "U+1D9C", "U+1D9D", "U+1D9E", "U+1D9F",
     "U+1DA0", "U+1DA1", "U+1DA2", "U+1DA3", "U+1DA4", "U+1DA5", "U+1DA6", "U+1DA7", "U+1DA8",
     "U+1DA9", "U+1DAA", "U+1DAB", "U+1DAC", "U+1DAD", "U+1DAE", "U+1DAF", "U+1DB0", "U+1DB1",
     "U+1DB2", "U+1DB3", "U+1DB4", "U+1DB5", "U+1DB6", "U+1DB7", "U+1DB8", "U+1DB9", "U+1DBA",
     "U+1DBB", "U+1DBC", "U+1DBD", "U+1DBE", "U+1DBF", "U+1DC0", "U+1DC1", "U+1DC2", "U+1DC3",
     "U+1DC4", "U+1DC5", "U+1DC6", "U+1DC7", "U+1DC8", "U+1DC9", "U+1DCA", "U+1DCB", "U+1DCC",
     "U+1DCD", "U+1DCE", "U+1DCF", "U+1DD0", "U+1DD1", "U+1DD2", "U+1DD3", "U+1DD4", "U+1DD5",
     "U+1DD6", "U+1DD7", "U+1DD8", "U+1DD9", "U+1DDA", "U+1DDB", "U+1DDC", "U+1DDD", "U+1DDE",
     "U+1DDF", "U+1DE0", "U+1DE1", "U+1DE2", "U+1DE3", "U+1DE4", "U+1DE5", "U+1DE6", "U+1DE7",
     "U+1DE8", "U+1DE9", "U+1DEA", "U+1DEB", "U+1DEC", "U+1DED", "U+1DEE", "U+1DEF", "U+1DF0",
     "U+1DF1", "U+1DF2", "U+1DF3", "U+1DF4", "U+1DF5", "U+1DF6", "U+1DF7", "U+1DF8", "U+1DF9",
     "U+1DFA", "U+1DFB", "U+1DFC", "U+1DFD", "U+1DFE", "U+1DFF", "U+1FBD", "U+1FBF", "U+1FC0",
     "U+1FC1", "U+1FCD", "U+1FCE", "U+1FCF", "U+1FDD", "U+1FDE", "U+1FDF", "U+1FED", "U+1FEE",
     "U+1FEF", "U+1FFD", "U+1FFE", "U+200B", "U+200C", "U+200D", "U+200E", "U+200F", "U+2018",
     "U+2019", "U+2024", "U+2027", "U+202A", "U+202B", "U+202C", "U+202D", "U+202E", "U+2060",
     "U+2061", "U+2062", "U+2063", "U+2064", "U+2066", "U+2067", "U+2068", "U+2069", "U+206A",
     "U+206B", "U+206C", "U+206D", "U+206E", "U+206F", "U+2071", "U+207F", "U+2090", "U+2091",
     "U+2092", "U+2093", "U+2094", "U+2095", "U+2096", "U+2097", "U+2098", "U+2099", "U+209A",
     "U+209B", "U+209C", "U+20D0", "U+20D1", "U+20D2", "U+20D3", "U+20D4", "U+20D5", "U+20D6",
     "U+20D7", "U+20D8", "U+20D9", "U+20DA", "U+20DB", "U+20DC", "U+20DD", "U+20DE", "U+20DF",
     "U+20E0", "U+20E1", "U+20E2", "U+20E3", "U+20E4", "U+20E5", "U+20E6", "U+20E7", "U+20E8",
     "U+20E9", "U+20EA", "U+20EB", "U+20EC", "U+20ED", "U+20EE", "U+20EF", "U+20F0", "U+2C7C",
     "U+2C7D", "U+2CEF", "U+2CF0", "U+2CF1", "U+2D6F", "U+2D7F", "U+2DE0", "U+2DE1", "U+2DE2",
     "U+2DE3", "U+2DE4", "U+2DE5", "U+2DE6", "U+2DE7", "U+2DE8", "U+2DE9", "U+2DEA", "U+2DEB",
     "U+2DEC", "U+2DED", "U+2DEE", "U+2DEF", "U+2DF0", "U+2DF1", "U+2DF2", "U+2DF3", "U+2DF4",
     "U+2DF5", "U+2DF6", "U+2DF7", "U+2DF8", "U+2DF9", "U+2DFA", "U+2DFB", "U+2DFC", "U+2DFD",
     "U+2DFE", "U+2DFF", "U+2E2F", "U+3005", "U+302A", "U+302B", "U+302C", "U+302D", "U+3031",
     "U+3032", "U+3033", "U+3034", "U+3035", "U+303B", "U+3099", "U+309A", "U+309B", "U+309C",
     "U+309D", "U+309E", "U+30FC", "U+30FD", "U+30FE", "U+A015", "U+A4F8", "U+A4F9", "U+A4FA",
     "U+A4FB", "U+A4FC", "U+A4FD", "U+A60C", "U+A66F", "U+A670", "U+A671", "U+A672", "U+A674",
     "U+A675", "U+A676", "U+A677", "U+A678", "U+A679", "U+A67A", "U+A67B", "U+A67C", "U+A67D",
     "U+A67F", "U+A69C", "U+A69D", "U+A69E", "U+A69F", "U+A6F0", "U+A6F1", "U+A700", "U+A701",
     "U+A702", "U+A703", "U+A704", "U+A705", "U+A706", "U+A707", "U+A708", "U+A709", "U+A70A",
     "U+A70B", "U+A70C", "U+A70D", "U+A70E", "U+A70F", "U+A710", "U+A711", "U+A712", "U+A713",
     "U+A714", "U+A715", "U+A716", "U+A717", "U+A718", "U+A719", "U+A71A", "U+A71B", "U+A71C",
     "U+A71D", "U+A71E", "U+A71F", "U+A720", "U+A721", "U+A770", "U+A788", "U+A789", "U+A78A",
     "U+A7F1", "U+A7F2", "U+A7F3", "U+A7F4", "U+A7F8", "U+A7F9", "U+A802", "U+A806", "U+A80B",
     "U+A825", "U+A826", "U+A82C", "U+A8C4", "U+A8C5", "U+A8E0", "U+A8E1", "U+A8E2", "U+A8E3",
     "U+A8E4", "U+A8E5", "U+A8E6", "U+A8E7", "U+A8E8", "U+A8E9", "U+A8EA", "U+A8EB", "U+A8EC",
     "U+A8ED", "U+A8EE", "U+A8EF", "U+A8F0", "U+A8F1", "U+A8FF", "U+A926", "U+A927", "U+A928",
     "U+A929", "U+A92A", "U+A92B", "U+A92C", "U+A92D", "U+A947", "U+A948", "U+A949", "U+A94A",
     "U+A94B", "U+A94C", "U+A94D", "U+A94E", "U+A94F", "U+A950", "U+A951", "U+A980", "U+A981",
     "U+A982", "U+A9B3", "U+A9B6", "U+A9B7", "U+A9B8", "U+A9B9", "U+A9BC", "U+A9BD", "U+A9CF",
     "U+A9E5", "U+A9E6", "U+AA29", "U+AA2A", "U+AA2B", "U+AA2C", "U+AA2D", "U+AA2E", "U+AA31",
     "U+AA32", "U+AA35", "U+AA36", "U+AA43", "U+AA4C", "U+AA70", "U+AA7C", "U+AAB0", "U+AAB2",
     "U+AAB3", "U+AAB4", "U+AAB7", "U+AAB8", "U+AABE", "U+AABF", "U+AAC1", "U+AADD", "U+AAEC",
     "U+AAED", "U+AAF3", "U+AAF4", "U+AAF6", "U+AB5B", "U+AB5C", "U+AB5D", "U+AB5E", "U+AB5F",
     "U+AB69", "U+AB6A", "U+AB6B", "U+ABE5", "U+ABE8", "U+ABED", "U+FB1E", "U+FBB2", "U+FBB3",
     "U+FBB4", "U+FBB5", "U+FBB6", "U+FBB7", "U+FBB8", "U+FBB9", "U+FBBA", "U+FBBB", "U+FBBC",
     "U+FBBD", "U+FBBE", "U+FBBF", "U+FBC0", "U+FBC1", "U+FBC2", "U+FE00", "U+FE01", "U+FE02",
     "U+FE03", "U+FE04", "U+FE05", "U+FE06", "U+FE07", "U+FE08", "U+FE09", "U+FE0A", "U+FE0B",
     "U+FE0C", "U+FE0D", "U+FE0E", "U+FE0F", "U+FE13", "U+FE20", "U+FE21", "U+FE22", "U+FE23",
     "U+FE24", "U+FE25", "U+FE26", "U+FE27", "U+FE28", "U+FE29", "U+FE2A", "U+FE2B", "U+FE2C",
     "U+FE2D", "U+FE2E", "U+FE2F", "U+FE52", "U+FE55", "U+FEFF", "U+FF07", "U+FF0E", "U+FF1A",
     "U+FF3E", "U+FF40", "U+FF70", "U+FF9E", "U+FF9F", "U+FFE3", "U+FFF9", "U+FFFA", "U+FFFB",
     "U+101FD", "U+102E0", "U+10376", "U+10377", "U+10378", "U+10379", "U+1037A", "U+10780",
     "U+10781", "U+10782", "U+10783", "U+10784", "U+10785", "U+10787", "U+10788", "U+10789",
     "U+1078A", "U+1078B", "U+1078C", "U+1078D", "U+1078E", "U+1078F", "U+10790", "U+10791",
     "U+10792", "U+10793", "U+10794", "U+10795", "U+10796", "U+10797", "U+10798", "U+10799",
     "U+1079A", "U+1079B", "U+1079C", "U+1079D", "U+1079E", "U+1079F", "U+107A0", "U+107A1",
     "U+107A2", "U+107A3", "U+107A4", "U+107A5", "U+107A6", "U+107A7", "U+107A8", "U+107A9",
     "U+107AA", "U+107AB", "U+107AC", "U+107AD", "U+107AE", "U+107AF", "U+107B0", "U+107B2",
     "U+107B3", "U+107B4", "U+107B5", "U+107B6", "U+107B7", "U+107B8", "U+107B9", "U+107BA",
     "U+10A01", "U+10A02", "U+10A03", "U+10A05", "U+10A06", "U+10A0C", "U+10A0D", "U+10A0E",
     "U+10A0F", "U+10A38", "U+10A39", "U+10A3A", "U+10A3F", "U+10AE5", "U+10AE6", "U+10D24",
     "U+10D25", "U+10D26", "U+10D27", "U+10D4E", "U+10D69", "U+10D6A", "U+10D6B", "U+10D6C",
     "U+10D6D", "U+10D6F", "U+10EAB", "U+10EAC", "U+10EC5", "U+10EFA", "U+10EFB", "U+10EFC",
     "U+10EFD", "U+10EFE", "U+10EFF", "U+10F46", "U+10F47", "U+10F48", "U+10F49", "U+10F4A",
     "U+10F4B", "U+10F4C", "U+10F4D", "U+10F4E", "U+10F4F", "U+10F50", "U+10F82", "U+10F83",
     "U+10F84", "U+10F85", "U+11001", "U+11038", "U+11039", "U+1103A", "U+1103B", "U+1103C",
     "U+1103D", "U+1103E", "U+1103F", "U+11040", "U+11041", "U+11042", "U+11043", "U+11044",
     "U+11045", "U+11046", "U+11070", "U+11073", "U+11074", "U+1107F", "U+11080", "U+11081",
     "U+110B3", "U+110B4", "U+110B5", "U+110B6", "U+110B9", "U+110BA", "U+110BD", "U+110C2",
     "U+110CD", "U+11100", "U+11101", "U+11102", "U+11127", "U+11128", "U+11129", "U+1112A",
     "U+1112B", "U+1112D", "U+1112E", "U+1112F", "U+11130", "U+11131", "U+11132", "U+11133",
     "U+11134", "U+11173", "U+11180", "U+11181", "U+111B6", "U+111B7", "U+111B8", "U+111B9",
     "U+111BA", "U+111BB", "U+111BC", "U+111BD", "U+111BE", "U+111C9", "U+111CA", "U+111CB",
     "U+111CC", "U+111CF", "U+1122F", "U+11230", "U+11231", "U+11234", "U+11236", "U+11237",
     "U+1123E", "U+11241", "U+112DF", "U+112E3", "U+112E4", "U+112E5", "U+112E6", "U+112E7",
     "U+112E8", "U+112E9", "U+112EA", "U+11300", "U+11301", "U+1133B", "U+1133C", "U+11340",
     "U+11366", "U+11367", "U+11368", "U+11369", "U+1136A", "U+1136B", "U+1136C", "U+11370",
     "U+11371", "U+11372", "U+11373", "U+11374", "U+113BB", "U+113BC", "U+113BD", "U+113BE",
     "U+113BF", "U+113C0", "U+113CE", "U+113D0", "U+113D2", "U+113E1", "U+113E2", "U+11438",
     "U+11439", "U+1143A", "U+1143B", "U+1143C", "U+1143D", "U+1143E", "U+1143F", "U+11442",
     "U+11443", "U+11444", "U+11446", "U+1145E", "U+114B3", "U+114B4", "U+114B5", "U+114B6",
     "U+114B7", "U+114B8", "U+114BA", "U+114BF", "U+114C0", "U+114C2", "U+114C3", "U+115B2",
     "U+115B3", "U+115B4", "U+115B5", "U+115BC", "U+115BD", "U+115BF", "U+115C0", "U+115DC",
     "U+115DD", "U+11633", "U+11634", "U+11635", "U+11636", "U+11637", "U+11638", "U+11639",
     "U+1163A", "U+1163D", "U+1163F", "U+11640", "U+116AB", "U+116AD", "U+116B0", "U+116B1",
     "U+116B2", "U+116B3", "U+116B4", "U+116B5", "U+116B7", "U+1171D", "U+1171F", "U+11722",
     "U+11723", "U+11724", "U+11725", "U+11727", "U+11728", "U+11729", "U+1172A", "U+1172B",
     "U+1182F", "U+11830", "U+11831", "U+11832", "U+11833", "U+11834", "U+11835", "U+11836",
     "U+11837", "U+11839", "U+1183A", "U+1193B", "U+1193C", "U+1193E", "U+11943", "U+119D4",
     "U+119D5", "U+119D6", "U+119D7", "U+119DA", "U+119DB", "U+119E0", "U+11A01", "U+11A02",
     "U+11A03", "U+11A04", "U+11A05", "U+11A06", "U+11A07", "U+11A08", "U+11A09", "U+11A0A",
     "U+11A33", "U+11A34", "U+11A35", "U+11A36", "U+11A37", "U+11A38", "U+11A3B", "U+11A3C",
     "U+11A3D", "U+11A3E", "U+11A47", "U+11A51", "U+11A52", "U+11A53", "U+11A54", "U+11A55",
     "U+11A56", "U+11A59", "U+11A5A", "U+11A5B", "U+11A8A", "U+11A8B", "U+11A8C", "U+11A8D",
     "U+11A8E", "U+11A8F", "U+11A90", "U+11A91", "U+11A92", "U+11A93", "U+11A94", "U+11A95",
     "U+11A96", "U+11A98", "U+11A99", "U+11B60", "U+11B62", "U+11B63", "U+11B64", "U+11B66",
     "U+11C30", "U+11C31", "U+11C32", "U+11C33", "U+11C34", "U+11C35", "U+11C36", "U+11C38",
     "U+11C39", "U+11C3A", "U+11C3B", "U+11C3C", "U+11C3D", "U+11C3F", "U+11C92", "U+11C93",
     "U+11C94", "U+11C95", "U+11C96", "U+11C97", "U+11C98", "U+11C99", "U+11C9A", "U+11C9B",
     "U+11C9C", "U+11C9D", "U+11C9E", "U+11C9F", "U+11CA0", "U+11CA1", "U+11CA2", "U+11CA3",
     "U+11CA4", "U+11CA5", "U+11CA6", "U+11CA7", "U+11CAA", "U+11CAB", "U+11CAC", "U+11CAD",
     "U+11CAE", "U+11CAF", "U+11CB0", "U+11CB2", "U+11CB3", "U+11CB5", "U+11CB6", "U+11D31",
     "U+11D32", "U+11D33", "U+11D34", "U+11D35", "U+11D36", "U+11D3A", "U+11D3C", "U+11D3D",
     "U+11D3F", "U+11D40", "U+11D41", "U+11D42", "U+11D43", "U+11D44", "U+11D45", "U+11D47",
     "U+11D90", "U+11D91", "U+11D95", "U+11D97", "U+11DD9", "U+11EF3", "U+11EF4", "U+11F00",
     "U+11F01", "U+11F36", "U+11F37", "U+11F38", "U+11F39", "U+11F3A", "U+11F40", "U+11F42",
     "U+11F5A", "U+13430", "U+13431", "U+13432", "U+13433", "U+13434", "U+13435", "U+13436",
     "U+13437", "U+13438", "U+13439", "U+1343A", "U+1343B", "U+1343C", "U+1343D", "U+1343E",
     "U+1343F", "U+13440", "U+13447", "U+13448", "U+13449", "U+1344A", "U+1344B", "U+1344C",
     "U+1344D", "U+1344E", "U+1344F", "U+13450", "U+13451", "U+13452", "U+13453", "U+13454",
     "U+13455", "U+1611E", "U+1611F", "U+16120", "U+16121", "U+16122", "U+16123", "U+16124",
     "U+16125", "U+16126", "U+16127", "U+16128", "U+16129", "U+1612D", "U+1612E", "U+1612F",
     "U+16AF0", "U+16AF1", "U+16AF2", "U+16AF3", "U+16AF4", "U+16B30", "U+16B31", "U+16B32",
     "U+16B33", "U+16B34", "U+16B35", "U+16B36", "U+16B40", "U+16B41", "U+16B42", "U+16B43",
     "U+16D40", "U+16D41", "U+16D42", "U+16D6B", "U+16D6C", "U+16F4F", "U+16F8F", "U+16F90",
     "U+16F91", "U+16F92", "U+16F93", "U+16F94", "U+16F95", "U+16F96", "U+16F97", "U+16F98",
     "U+16F99", "U+16F9A", "U+16F9B", "U+16F9C", "U+16F9D", "U+16F9E", "U+16F9F", "U+16FE0",
     "U+16FE1", "U+16FE3", "U+16FE4", "U+16FF2", "U+16FF3", "U+1AFF0", "U+1AFF1", "U+1AFF2",
     "U+1AFF3", "U+1AFF5", "U+1AFF6", "U+1AFF7", "U+1AFF8", "U+1AFF9", "U+1AFFA", "U+1AFFB",
     "U+1AFFD", "U+1AFFE", "U+1BC9D", "U+1BC9E", "U+1BCA0", "U+1BCA1", "U+1BCA2", "U+1BCA3",
     "U+1CF00", "U+1CF01", "U+1CF02", "U+1CF03", "U+1CF04", "U+1CF05", "U+1CF06", "U+1CF07",
     "U+1CF08", "U+1CF09", "U+1CF0A", "U+1CF0B", "U+1CF0C", "U+1CF0D", "U+1CF0E", "U+1CF0F",
     "U+1CF10", "U+1CF11", "U+1CF12", "U+1CF13", "U+1CF14", "U+1CF15", "U+1CF16", "U+1CF17",
     "U+1CF18", "U+1CF19", "U+1CF1A", "U+1CF1B", "U+1CF1C", "U+1CF1D", "U+1CF1E", "U+1CF1F",
     "U+1CF20", "U+1CF21", "U+1CF22", "U+1CF23", "U+1CF24", "U+1CF25", "U+1CF26", "U+1CF27",
     "U+1CF28", "U+1CF29", "U+1CF2A", "U+1CF2B", "U+1CF2C", "U+1CF2D", "U+1CF30", "U+1CF31",
     "U+1CF32", "U+1CF33", "U+1CF34", "U+1CF35", "U+1CF36", "U+1CF37", "U+1CF38", "U+1CF39",
     "U+1CF3A", "U+1CF3B", "U+1CF3C", "U+1CF3D", "U+1CF3E", "U+1CF3F", "U+1CF40", "U+1CF41",
     "U+1CF42", "U+1CF43", "U+1CF44", "U+1CF45", "U+1CF46", "U+1D167", "U+1D168", "U+1D169",
     "U+1D173", "U+1D174", "U+1D175", "U+1D176", "U+1D177", "U+1D178", "U+1D179", "U+1D17A",
     "U+1D17B", "U+1D17C", "U+1D17D", "U+1D17E", "U+1D17F", "U+1D180", "U+1D181", "U+1D182",
     "U+1D185", "U+1D186", "U+1D187", "U+1D188", "U+1D189", "U+1D18A", "U+1D18B", "U+1D1AA",
     "U+1D1AB", "U+1D1AC", "U+1D1AD", "U+1D242", "U+1D243", "U+1D244", "U+1DA00", "U+1DA01",
     "U+1DA02", "U+1DA03", "U+1DA04", "U+1DA05", "U+1DA06", "U+1DA07", "U+1DA08", "U+1DA09",
     "U+1DA0A", "U+1DA0B", "U+1DA0C", "U+1DA0D", "U+1DA0E", "U+1DA0F", "U+1DA10", "U+1DA11",
     "U+1DA12", "U+1DA13", "U+1DA14", "U+1DA15", "U+1DA16", "U+1DA17", "U+1DA18", "U+1DA19",
     "U+1DA1A", "U+1DA1B", "U+1DA1C", "U+1DA1D", "U+1DA1E", "U+1DA1F", "U+1DA20", "U+1DA21",
     "U+1DA22", "U+1DA23", "U+1DA24", "U+1DA25", "U+1DA26", "U+1DA27", "U+1DA28", "U+1DA29",
     "U+1DA2A", "U+1DA2B", "U+1DA2C", "U+1DA2D", "U+1DA2E", "U+1DA2F", "U+1DA30", "U+1DA31",
     "U+1DA32", "U+1DA33", "U+1DA34", "U+1DA35", "U+1DA36", "U+1DA3B", "U+1DA3C", "U+1DA3D",
     "U+1DA3E", "U+1DA3F", "U+1DA40", "U+1DA41", "U+1DA42", "U+1DA43", "U+1DA44", "U+1DA45",
     "U+1DA46", "U+1DA47", "U+1DA48", "U+1DA49", "U+1DA4A", "U+1DA4B", "U+1DA4C", "U+1DA4D",
     "U+1DA4E", "U+1DA4F", "U+1DA50", "U+1DA51", "U+1DA52", "U+1DA53", "U+1DA54", "U+1DA55",
     "U+1DA56", "U+1DA57", "U+1DA58", "U+1DA59", "U+1DA5A", "U+1DA5B", "U+1DA5C", "U+1DA5D",
     "U+1DA5E", "U+1DA5F", "U+1DA60", "U+1DA61", "U+1DA62", "U+1DA63", "U+1DA64", "U+1DA65",
     "U+1DA66", "U+1DA67", "U+1DA68", "U+1DA69", "U+1DA6A", "U+1DA6B", "U+1DA6C", "U+1DA75",
     "U+1DA84", "U+1DA9B", "U+1DA9C", "U+1DA9D", "U+1DA9E", "U+1DA9F", "U+1DAA1", "U+1DAA2",
     "U+1DAA3", "U+1DAA4", "U+1DAA5", "U+1DAA6", "U+1DAA7", "U+1DAA8", "U+1DAA9", "U+1DAAA",
     "U+1DAAB", "U+1DAAC", "U+1DAAD", "U+1DAAE", "U+1DAAF", "U+1E000", "U+1E001", "U+1E002",
     "U+1E003", "U+1E004", "U+1E005", "U+1E006", "U+1E008", "U+1E009", "U+1E00A", "U+1E00B",
     "U+1E00C", "U+1E00D", "U+1E00E", "U+1E00F", "U+1E010", "U+1E011", "U+1E012", "U+1E013",
     "U+1E014", "U+1E015", "U+1E016", "U+1E017", "U+1E018", "U+1E01B", "U+1E01C", "U+1E01D",
     "U+1E01E", "U+1E01F", "U+1E020", "U+1E021", "U+1E023", "U+1E024", "U+1E026", "U+1E027",
     "U+1E028", "U+1E029", "U+1E02A", "U+1E030", "U+1E031", "U+1E032", "U+1E033", "U+1E034",
     "U+1E035", "U+1E036", "U+1E037", "U+1E038", "U+1E039", "U+1E03A", "U+1E03B", "U+1E03C",
     "U+1E03D", "U+1E03E", "U+1E03F", "U+1E040", "U+1E041", "U+1E042", "U+1E043", "U+1E044",
     "U+1E045", "U+1E046", "U+1E047", "U+1E048", "U+1E049", "U+1E04A", "U+1E04B", "U+1E04C",
     "U+1E04D", "U+1E04E", "U+1E04F", "U+1E050", "U+1E051", "U+1E052", "U+1E053", "U+1E054",
     "U+1E055", "U+1E056", "U+1E057", "U+1E058", "U+1E059", "U+1E05A", "U+1E05B", "U+1E05C",
     "U+1E05D", "U+1E05E", "U+1E05F", "U+1E060", "U+1E061", "U+1E062", "U+1E063", "U+1E064",
     "U+1E065", "U+1E066", "U+1E067", "U+1E068", "U+1E069", "U+1E06A", "U+1E06B", "U+1E06C",
     "U+1E06D", "U+1E08F", "U+1E130", "U+1E131", "U+1E132", "U+1E133", "U+1E134", "U+1E135",
     "U+1E136", "U+1E137", "U+1E138", "U+1E139", "U+1E13A", "U+1E13B", "U+1E13C", "U+1E13D",
     "U+1E2AE", "U+1E2EC", "U+1E2ED", "U+1E2EE", "U+1E2EF", "U+1E4EB", "U+1E4EC", "U+1E4ED",
     "U+1E4EE", "U+1E4EF", "U+1E5EE", "U+1E5EF", "U+1E6E3", "U+1E6E6", "U+1E6EE", "U+1E6EF",
     "U+1E6F5", "U+1E6FF", "U+1E8D0", "U+1E8D1", "U+1E8D2", "U+1E8D3", "U+1E8D4", "U+1E8D5",
     "U+1E8D6", "U+1E944", "U+1E945", "U+1E946", "U+1E947", "U+1E948", "U+1E949", "U+1E94A",
     "U+1E94B", "U+1F3FB", "U+1F3FC", "U+1F3FD", "U+1F3FE", "U+1F3FF", "U+E0001", "U+E0020",
     "U+E0021", "U+E0022", "U+E0023", "U+E0024", "U+E0025", "U+E0026", "U+E0027", "U+E0028",
     "U+E0029", "U+E002A", "U+E002B", "U+E002C", "U+E002D", "U+E002E", "U+E002F", "U+E0030",
     "U+E0031", "U+E0032", "U+E0033", "U+E0034", "U+E0035", "U+E0036", "U+E0037", "U+E0038",
     "U+E0039", "U+E003A", "U+E003B", "U+E003C", "U+E003D", "U+E003E", "U+E003F", "U+E0040",
     "U+E0041", "U+E0042", "U+E0043", "U+E0044", "U+E0045", "U+E0046", "U+E0047", "U+E0048",
     "U+E0049", "U+E004A", "U+E004B", "U+E004C", "U+E004D", "U+E004E", "U+E004F", "U+E0050",
     "U+E0051", "U+E0052", "U+E0053", "U+E0054", "U+E0055", "U+E0056", "U+E0057", "U+E0058",
     "U+E0059", "U+E005A", "U+E005B", "U+E005C", "U+E005D", "U+E005E", "U+E005F", "U+E0060",
     "U+E0061", "U+E0062", "U+E0063", "U+E0064", "U+E0065", "U+E0066", "U+E0067", "U+E0068",
     "U+E0069", "U+E006A", "U+E006B", "U+E006C", "U+E006D", "U+E006E", "U+E006F", "U+E0070",
     "U+E0071", "U+E0072", "U+E0073", "U+E0074", "U+E0075", "U+E0076", "U+E0077", "U+E0078",
     "U+E0079", "U+E007A", "U+E007B", "U+E007C", "U+E007D", "U+E007E", "U+E007F", "U+E0100",
     "U+E0101", "U+E0102", "U+E0103", "U+E0104", "U+E0105", "U+E0106", "U+E0107", "U+E0108",
     "U+E0109", "U+E010A", "U+E010B", "U+E010C", "U+E010D", "U+E010E", "U+E010F", "U+E0110",
     "U+E0111", "U+E0112", "U+E0113", "U+E0114", "U+E0115", "U+E0116", "U+E0117", "U+E0118",
     "U+E0119", "U+E011A", "U+E011B", "U+E011C", "U+E011D", "U+E011E", "U+E011F", "U+E0120",
     "U+E0121", "U+E0122", "U+E0123", "U+E0124", "U+E0125", "U+E0126", "U+E0127", "U+E0128",
     "U+E0129", "U+E012A", "U+E012B", "U+E012C", "U+E012D", "U+E012E", "U+E012F", "U+E0130",
     "U+E0131", "U+E0132", "U+E0133", "U+E0134", "U+E0135", "U+E0136", "U+E0137", "U+E0138",
     "U+E0139", "U+E013A", "U+E013B", "U+E013C", "U+E013D", "U+E013E", "U+E013F", "U+E0140",
     "U+E0141", "U+E0142", "U+E0143", "U+E0144", "U+E0145", "U+E0146", "U+E0147", "U+E0148",
     "U+E0149", "U+E014A", "U+E014B", "U+E014C", "U+E014D", "U+E014E", "U+E014F", "U+E0150",
     "U+E0151", "U+E0152", "U+E0153", "U+E0154", "U+E0155", "U+E0156", "U+E0157", "U+E0158",
     "U+E0159", "U+E015A", "U+E015B", "U+E015C", "U+E015D", "U+E015E", "U+E015F", "U+E0160",
     "U+E0161", "U+E0162", "U+E0163", "U+E0164", "U+E0165", "U+E0166", "U+E0167", "U+E0168",
     "U+E0169", "U+E016A", "U+E016B", "U+E016C", "U+E016D", "U+E016E", "U+E016F", "U+E0170",
     "U+E0171", "U+E0172", "U+E0173", "U+E0174", "U+E0175", "U+E0176", "U+E0177", "U+E0178",
     "U+E0179", "U+E017A", "U+E017B", "U+E017C", "U+E017D", "U+E017E", "U+E017F", "U+E0180",
     "U+E0181", "U+E0182", "U+E0183", "U+E0184", "U+E0185", "U+E0186", "U+E0187", "U+E0188",
     "U+E0189", "U+E018A", "U+E018B", "U+E018C", "U+E018D", "U+E018E", "U+E018F", "U+E0190",
     "U+E0191", "U+E0192", "U+E0193", "U+E0194", "U+E0195", "U+E0196", "U+E0197", "U+E0198",
     "U+E0199", "U+E019A", "U+E019B", "U+E019C", "U+E019D", "U+E019E", "U+E019F", "U+E01A0",
     "U+E01A1", "U+E01A2", "U+E01A3", "U+E01A4", "U+E01A5", "U+E01A6", "U+E01A7", "U+E01A8",
     "U+E01A9", "U+E01AA", "U+E01AB", "U+E01AC", "U+E01AD", "U+E01AE", "U+E01AF", "U+E01B0",
     "U+E01B1", "U+E01B2", "U+E01B3", "U+E01B4", "U+E01B5", "U+E01B6", "U+E01B7", "U+E01B8",
     "U+E01B9", "U+E01BA", "U+E01BB", "U+E01BC", "U+E01BD", "U+E01BE", "U+E01BF", "U+E01C0",
     "U+E01C1", "U+E01C2", "U+E01C3", "U+E01C4", "U+E01C5", "U+E01C6", "U+E01C7", "U+E01C8",
     "U+E01C9", "U+E01CA", "U+E01CB", "U+E01CC", "U+E01CD", "U+E01CE", "U+E01CF", "U+E01D0",
     "U+E01D1", "U+E01D2", "U+E01D3", "U+E01D4", "U+E01D5", "U+E01D6", "U+E01D7", "U+E01D8",
     "U+E01D9", "U+E01DA", "U+E01DB", "U+E01DC", "U+E01DD", "U+E01DE", "U+E01DF", "U+E01E0",
     "U+E01E1", "U+E01E2", "U+E01E3", "U+E01E4", "U+E01E5", "U+E01E6", "U+E01E7", "U+E01E8",
     "U+E01E9", "U+E01EA", "U+E01EB", "U+E01EC", "U+E01ED", "U+E01EE", "U+E01EF"
    }

\* Vec<String>::concat
RECURSIVE Concat(_)
Concat(ss) == IF ss = <<>> THEN <<>> ELSE Head(ss) \o Concat(Tail(ss))

\* u8::to_ascii_lowercase / to_ascii_uppercase on one character.
AsciiLowerChar(c) ==
    IF c \in UpperChars
    THEN LowerSeq[CHOOSE i \in 1..Len(UpperSeq) : UpperSeq[i] = c]
    ELSE c
AsciiUpperChar(c) ==
    IF c \in LowerChars
    THEN UpperSeq[CHOOSE i \in 1..Len(LowerSeq) : LowerSeq[i] = c]
    ELSE c

\* char::to_lowercase / char::to_uppercase: the ASCII mapping for an ASCII
\* character, the table's mapping for a character it lists, the character
\* itself otherwise.
ToLowerChar(c) ==
    IF c \in AsciiChars THEN <<AsciiLowerChar(c)>>
    ELSE IF c \in LowercaseMapped
         THEN (CHOOSE p \in LOWERCASE_TABLE : p[1] = c)[2]
         ELSE <<c>>
ToUpperChar(c) ==
    IF c \in AsciiChars THEN <<AsciiUpperChar(c)>>
    ELSE IF c \in UppercaseMapped
         THEN (CHOOSE p \in UPPERCASE_TABLE : p[1] = c)[2]
         ELSE <<c>>

\* str::to_uppercase: every character replaced by its uppercase mapping.
ToUpper(s) == Concat([i \in 1..Len(s) |-> ToUpperChar(s[i])])

\* case_ignorable_then_cased: the first character that is not
\* case-ignorable exists and is cased.
RECURSIVE case_ignorable_then_cased(_)
case_ignorable_then_cased(s) ==
    IF s = <<>> THEN FALSE
    ELSE IF Head(s) \in CaseIgnorableChars THEN case_ignorable_then_cased(Tail(s))
    ELSE Head(s) \in CasedChars

Reverse(s) == [i \in 1..Len(s) |-> s[Len(s) + 1 - i]]

\* map_uppercase_sigma: final sigma at the end of a word, small sigma
\* elsewhere.
map_uppercase_sigma(s, i) ==
    IF case_ignorable_then_cased(Reverse(SubSeq(s, 1, i - 1)))
         /\ ~case_ignorable_then_cased(SubSeq(s, i + 1, Len(s)))
    THEN "U+03C2" ELSE "U+03C3"

\* str::to_lowercase: capital sigma by map_uppercase_sigma, every other
\* character by its lowercase mapping.
ToLower(s) ==
    Concat([i \in 1..Len(s) |->
               IF s[i] = SIGMA THEN <<map_uppercase_sigma(s, i)>>
               ELSE ToLowerChar(s[i])])

-----------------------------------------------------------------------------
(* parse_method: s.to_uppercase() matched against the five method names.   *)

parse_method(s) ==
    LET up == ToUpper(s) IN
    CASE up = <<"G","E","T">> -> Some("Get")
      [] up = <<"P","O","S","T">> -> Some("Post")
      [] up = <<"P","U","T">> -> Some("Put")
      [] up = <<"D","E","L","E","T","E">> -> Some("Delete")
      [] up = <<"P","A","T","C","H">> -> Some("Patch")
      [] OTHER -> None

-----------------------------------------------------------------------------
(* InMemoryRouteRepo: the primitive DashMap steps and the read operations. *)

\* Route { id, tenant_id, upstream_id, match_rules { http: Option<HttpMatch> },
\*         priority, enabled }; http = <<>> or <<[methods, path]>>.
\* Route; rate_limit is None unless a specification sets it.
MkRoute(id, t, u, http, prio, en) ==
    [id |-> id, tenant_id |-> t, upstream_id |-> u, http |-> http,
     priority |-> prio, enabled |-> en, rate_limit |-> <<>>]

\* HttpMatch; the query allowlist is empty and the suffix mode is the
\* default (Append) unless a specification sets them.
MkHttp(methods, path) ==
    [methods |-> methods, path |-> path, query_allowlist |-> {},
     path_suffix_mode |-> "Append"]

\* CreateRouteRequest { upstream_id, match_rules.http, priority, enabled,
\* rate_limit } from an input <<http, priority, enabled, rate_limit>>.
CreateRouteReq(u, inp) ==
    [upstream_id |-> u, http |-> inp[1], priority |-> inp[2], enabled |-> inp[3],
     rate_limit |-> inp[4]]

\* The Route create_route builds from the request, with the fresh id `id`.
RouteOfRequest(id, t, req) ==
    [MkRoute(id, t, req.upstream_id, req.http, req.priority, req.enabled)
       EXCEPT !.rate_limit = req.rate_limit]

\* self.upstream_index.get(&upstream_id).map(|ids| ids.clone()).unwrap_or_default()
IndexGet(I, u) == IF u \in DOMAIN I THEN I[u] ELSE <<>>

\* self.upstream_index.entry(upstream_id).or_default().push(route_id)
IndexPush(I, u, id) == MapInsert(I, u, Append(IndexGet(I, u), id))

\* get_by_id: the store row filtered by tenant.
get_by_id(S, t, id) ==
    IF id \in DOMAIN S /\ S[id].tenant_id = t THEN Some(S[id]) ELSE None

\* The candidate test of find_matching's loop body (the five `continue`s).
IsCandidate(route, t, request_method, path) ==
    /\ route.tenant_id = t
    /\ route.enabled
    /\ IsSome(route.http)
    /\ IsSome(request_method)
    /\ Unwrap(request_method) \in Unwrap(route.http).methods
    /\ StartsWith(path, Unwrap(route.http).path)

\* Mutant of Better: the priority tie-break is dropped.
BetterLongestOnly(path_len, priority, acc) ==
    path_len > acc.best_path_len

\* if path_len > best_path_len || (path_len == best_path_len && priority > best_priority)

Better(path_len, priority, acc) ==
    \/ path_len > acc.best_path_len
    \/ (path_len = acc.best_path_len /\ priority > acc.best_priority)

\* The locals of find_matching before its loop.
FindStart == [best |-> None, best_path_len |-> 0, best_priority |-> I32_MIN]

\* One turn of the for loop of find_matching: store.get(id), the filters,
\* and the comparison with the best route so far.
FindVisit(S, id, t, request_method, path, acc) ==
    IF id \notin DOMAIN S THEN acc
    ELSE
      LET route == S[id] IN
      IF ~IsCandidate(route, t, request_method, path) THEN acc
      ELSE
        LET path_len == Len(Unwrap(route.http).path)
            priority == route.priority
        IN  IF Better(path_len, priority, acc)
            THEN [best |-> Some(route),
                  best_path_len |-> path_len,
                  best_priority |-> priority]
            ELSE acc

\* The for loop of find_matching over the cloned id list.
RECURSIVE FindLoop(_, _, _, _, _, _)
FindLoop(S, ids, t, request_method, path, acc) ==
    IF ids = <<>> THEN acc
    ELSE FindLoop(S, Tail(ids), t, request_method, path,
                  FindVisit(S, Head(ids), t, request_method, path, acc))

\* find_matching: Some(route) or None (RepositoryError::NotFound).
find_matching(S, I, t, u, method, path) ==
    FindLoop(S, IndexGet(I, u), t, parse_method(method), path, FindStart).best

\* create: store.insert, then the index push.
RepoCreateStore(S, route) == MapInsert(S, route.id, route)
RepoCreateIndex(I, route) == IndexPush(I, route.upstream_id, route.id)

\* routes.sort_by_key(|r| r.id) on a sequence of routes: a stable sort, rows
\* of equal key keep their order (the head is inserted before its equals).
RECURSIVE InsertById(_, _)
InsertById(sorted, r) ==
    IF sorted = <<>> THEN <<r>>
    ELSE IF r.id <= Head(sorted).id THEN <<r>> \o sorted
    ELSE <<Head(sorted)>> \o InsertById(Tail(sorted), r)

RECURSIVE SortById(_)
SortById(rs) ==
    IF rs = <<>> THEN <<>> ELSE InsertById(SortById(Tail(rs)), Head(rs))

\* The filter_map of list_by_upstream: index ids still in the store and
\* owned by the tenant, in index order.
RECURSIVE FilterOwned(_, _, _)
FilterOwned(S, ids, t) ==
    IF ids = <<>> THEN <<>>
    ELSE IF IsSome(get_by_id(S, t, Head(ids)))
         THEN <<S[Head(ids)]>> \o FilterOwned(S, Tail(ids), t)
         ELSE FilterOwned(S, Tail(ids), t)

\* into_iter().skip(skip).take(top)
SkipTake(rs, skip, top) ==
    SubSeq(rs, skip + 1, IF skip + top < Len(rs) THEN skip + top ELSE Len(rs))

\* list_by_upstream with ListQuery { top, skip }.
list_by_upstream(S, I, t, u, top, skip) ==
    SkipTake(SortById(FilterOwned(S, IndexGet(I, u), t)), skip, top)

\* ListQuery::default()
DefaultTop == 50

\* delete, step by step: the ownership check, store.remove, the index retain.
RepoDeleteRemove(S, id) == MapRemove(S, id)
RepoDeleteRetain(I, u, id) ==
    IF u \in DOMAIN I THEN [I EXCEPT ![u] = Retain(I[u], id)] ELSE I

\* delete_by_upstream, step by step.
\* upstream_index.remove(&upstream_id)
DbuIndexRemove(I, u) == MapRemove(I, u)

\* Mutant of DbuOwned: the cascade takes every row under the upstream id.
DbuOwnedAnyTenant(route, t) == TRUE

\* if route.tenant_id == tenant_id { deleted += 1 } else { put it back }
DbuOwned(route, t) == route.tenant_id = t

\* if !surviving_ids.is_empty() { upstream_index.insert(upstream_id, surviving_ids) }
DbuReindex(I, u, surviving) ==
    IF surviving /= <<>> THEN MapInsert(I, u, surviving) ELSE I

\* The for loop of delete_by_upstream run to its end without interruption:
\* every id is removed from the store and a row of another tenant is put back.
RECURSIVE DbuLoop(_, _, _, _)
DbuLoop(S, ids, t, acc) ==
    IF ids = <<>> THEN [store |-> S, surviving |-> acc.surviving, deleted |-> acc.deleted]
    ELSE
        LET id == Head(ids) IN
        IF id \notin DOMAIN S THEN DbuLoop(S, Tail(ids), t, acc)
        ELSE IF DbuOwned(S[id], t)
             THEN DbuLoop(MapRemove(S, id), Tail(ids), t,
                          [acc EXCEPT !.deleted = @ + 1])
             ELSE DbuLoop(MapInsert(MapRemove(S, id), id, S[id]), Tail(ids), t,
                          [acc EXCEPT !.surviving = Append(@, id)])

\* delete_by_upstream as one uninterrupted call: the new store, the new
\* index and the number of rows deleted.
delete_by_upstream(S, I, t, u) ==
    LET loop == DbuLoop(S, IndexGet(I, u), t, [surviving |-> <<>>, deleted |-> 0])
    IN  [store |-> loop.store,
         index |-> DbuReindex(DbuIndexRemove(I, u), u, loop.surviving),
         deleted |-> loop.deleted]

-----------------------------------------------------------------------------
(* Upstream repository (UpstreamRepository trait): tenant-scoped CRUD with *)
(* a unique (tenant, alias); every call is one atomic step.                *)

Ok(v) == [ok |-> TRUE, value |-> v]
Err(kind) == [ok |-> FALSE, err |-> kind]

\* Upstream { id, tenant_id, alias, server { endpoints }, enabled, auth,
\* rate_limit, headers }; headers holds the Option<RequestHeaderRules> of
\* HeadersConfig.request.
MkUpstream(id, t, alias, endpoints, en) ==
    [id |-> id, tenant_id |-> t, alias |-> alias, endpoints |-> endpoints,
     enabled |-> en, auth |-> <<>>, rate_limit |-> <<>>, headers |-> <<>>]

\* The upstreams of a tenant that hold an alias, other than `except`.
AliasHolders(U, t, alias, except) ==
    {id \in DOMAIN U : id /= except /\ U[id].tenant_id = t /\ U[id].alias = alias}

\* Mutant of AliasTaken: the unique-alias check is missing.
AliasTakenNever(U, t, alias, except) == FALSE

AliasTaken(U, t, alias, except) == AliasHolders(U, t, alias, except) /= {}

\* Mutant of the repository's create: success is returned without storing
\* the row.
UpstreamRepoCreateUnstored(U, up) ==
    IF AliasTaken(U, up.tenant_id, up.alias, 0)
    THEN [res |-> Err("Conflict"), U |-> U]
    ELSE [res |-> Ok(up), U |-> U]

\* create: Conflict on a duplicate (tenant, alias), else the row is stored.
UpstreamRepoCreate(U, up) ==
    IF AliasTaken(U, up.tenant_id, up.alias, 0)
    THEN [res |-> Err("Conflict"), U |-> U]
    ELSE [res |-> Ok(up), U |-> MapInsert(U, up.id, up)]

\* get_by_id(tenant, id)
upstream_get_by_id(U, t, id) ==
    IF id \in DOMAIN U /\ U[id].tenant_id = t THEN Some(U[id]) ELSE None

\* get_by_alias(tenant, alias)
upstream_get_by_alias(U, t, alias) ==
    LET hs == AliasHolders(U, t, alias, 0) IN
    IF hs = {} THEN None ELSE Some(U[CHOOSE id \in hs : TRUE])

\* update: the row must exist; a changed alias must not be held by another
\* upstream of the tenant.
UpstreamRepoUpdate(U, up) ==
    IF up.id \notin DOMAIN U THEN [res |-> Err("NotFound"), U |-> U]
    ELSE IF AliasTaken(U, up.tenant_id, up.alias, up.id)
         THEN [res |-> Err("Conflict"), U |-> U]
         ELSE [res |-> Ok(up), U |-> MapInsert(U, up.id, up)]

\* delete(tenant, id): NotFound unless the row exists and the tenant owns it.
UpstreamRepoDelete(U, t, id) ==
    IF upstream_get_by_id(U, t, id) = None
    THEN [res |-> Err("NotFound"), U |-> U]
    ELSE [res |-> Ok(id), U |-> MapRemove(U, id)]

-----------------------------------------------------------------------------
(* Control plane (ControlPlaneServiceImpl): alias rules and upstream calls. *)

MAX_ALIAS_LENGTH == 253

\* c.is_ascii_alphanumeric() || matches!(c, '.' | ':' | '-' | '_')
AliasCharOk(c) ==
    c \in LowerChars \cup UpperChars \cup DigitChars \cup {".", ":", "-", "_"}

\* validate_alias: TRUE for Ok(()), FALSE for Err(Validation).
validate_alias(alias) ==
    /\ alias /= <<>>
    /\ Len(alias) <= MAX_ALIAS_LENGTH
    /\ \A i \in 1..Len(alias) : AliasCharOk(alias[i])

\* The decimal rendering of a port by format!("{}").
DigitChar(d) ==
    CASE d = 0 -> "0" [] d = 1 -> "1" [] d = 2 -> "2" [] d = 3 -> "3" [] d = 4 -> "4"
      [] d = 5 -> "5" [] d = 6 -> "6" [] d = 7 -> "7" [] d = 8 -> "8" [] d = 9 -> "9"

RECURSIVE Decimal(_)
Decimal(n) == IF n < 10 THEN <<DigitChar(n)>> ELSE Decimal(n \div 10) \o <<DigitChar(n % 10)>>

\* Endpoint { scheme, host, port }
MkEndpoint(scheme, host, port) == [scheme |-> scheme, host |-> host, port |-> port]

\* Endpoint::alias_contribution
alias_contribution(e) ==
    IF e.port = 443 \/ e.port = 80 THEN e.host ELSE e.host \o <<":">> \o Decimal(e.port)

\* generate_alias: the first endpoint's contribution, "" without endpoints.
generate_alias(endpoints) ==
    IF endpoints = <<>> THEN <<>> ELSE alias_contribution(endpoints[1])

\* An optional field of a request, None when the request leaves it out.
ReqOpt(req, f) == IF f \in DOMAIN req THEN req[f] ELSE <<>>

\* enum DomainError, by variant.
DomainErrors ==
    {"NotFound", "Conflict", "Validation", "UpstreamDisabled", "Internal",
     "MissingTargetHost", "InvalidTargetHost", "UnknownTargetHost",
     "AuthenticationFailed", "PayloadTooLarge", "RateLimitExceeded", "SecretNotFound",
     "DownstreamError", "ProtocolError", "ConnectionTimeout", "RequestTimeout"}

\* From<RepositoryError> for DomainError
FromRepositoryError(e) ==
    CASE e = "NotFound" -> "NotFound"
      [] e = "Conflict" -> "Conflict"
      [] e = "Internal" -> "Internal"

\* domain_err_to_sdk: the ServiceGatewayError variant of a DomainError.
domain_err_to_sdk(err) ==
    CASE err = "NotFound" -> "NotFound"
      [] err = "Conflict" -> "ValidationError"
      [] err = "Validation" -> "ValidationError"
      [] err = "UpstreamDisabled" -> "UpstreamDisabled"
      [] err = "Internal" -> "DownstreamError"
      [] OTHER -> err

\* map_err(DomainError::from) on the result of a repository call.
MapRepoErr(r) ==
    IF r.res.ok THEN r ELSE [r EXCEPT !.res = Err(FromRepositoryError(r.res.err))]

\* create_upstream with the fresh id `id`:
\* CreateUpstreamRequest { alias: Option, server.endpoints, enabled }.
create_upstream(U, t, id, req) ==
    LET alias == IF IsSome(req.alias) THEN Unwrap(req.alias)
                 ELSE generate_alias(req.endpoints)
    IN  IF ~validate_alias(alias) THEN [res |-> Err("Validation"), U |-> U]
        ELSE MapRepoErr(UpstreamRepoCreate(U,
                 [MkUpstream(id, t, alias, req.endpoints, req.enabled)
                     EXCEPT !.auth = ReqOpt(req, "auth"),
                            !.rate_limit = ReqOpt(req, "rate_limit"),
                            !.headers = ReqOpt(req, "headers")]))

\* get_route
get_route(S, t, id) ==
    IF IsSome(get_by_id(S, t, id)) THEN Ok(Unwrap(get_by_id(S, t, id))) ELSE Err("NotFound")

\* get_upstream
get_upstream(U, t, id) ==
    IF IsSome(upstream_get_by_id(U, t, id))
    THEN Ok(Unwrap(upstream_get_by_id(U, t, id))) ELSE Err("NotFound")

\* Mutant of ApplyUpstreamPatch: a request without `enabled` enables the
\* upstream.
ApplyUpstreamPatchEnables(existing, req) ==
    LET alias == ReqOpt(req, "alias")
        endpoints == ReqOpt(req, "endpoints")
        auth == ReqOpt(req, "auth")
        headers == ReqOpt(req, "headers")
        rate_limit == ReqOpt(req, "rate_limit")
        enabled == ReqOpt(req, "enabled")
    IN  IF IsSome(alias) /\ ~validate_alias(Unwrap(alias))
        THEN Err("Validation")
        ELSE Ok([existing EXCEPT
                   !.endpoints = IF IsSome(endpoints) THEN Unwrap(endpoints) ELSE @,
                   !.alias = IF IsSome(alias) THEN Unwrap(alias) ELSE @,
                   !.auth = IF IsSome(auth) THEN Some(Unwrap(auth)) ELSE @,
                   !.headers = IF IsSome(headers) THEN Some(Unwrap(headers)) ELSE @,
                   !.rate_limit = IF IsSome(rate_limit) THEN Some(Unwrap(rate_limit)) ELSE @,
                   !.enabled = IF IsSome(enabled) THEN Unwrap(enabled) ELSE TRUE])

\* The partial update of update_upstream applied to the row read:
\* UpdateUpstreamRequest { server.endpoints, alias, auth, headers,
\* rate_limit, enabled }, each an Option.  Err(Validation) when the new
\* alias is invalid.
ApplyUpstreamPatch(existing, req) ==
    LET alias == ReqOpt(req, "alias")
        endpoints == ReqOpt(req, "endpoints")
        auth == ReqOpt(req, "auth")
        headers == ReqOpt(req, "headers")
        rate_limit == ReqOpt(req, "rate_limit")
        enabled == ReqOpt(req, "enabled")
    IN  IF IsSome(alias) /\ ~validate_alias(Unwrap(alias))
        THEN Err("Validation")
        ELSE Ok([existing EXCEPT
                   !.endpoints = IF IsSome(endpoints) THEN Unwrap(endpoints) ELSE @,
                   !.alias = IF IsSome(alias) THEN Unwrap(alias) ELSE @,
                   !.auth = IF IsSome(auth) THEN Some(Unwrap(auth)) ELSE @,
                   !.headers = IF IsSome(headers) THEN Some(Unwrap(headers)) ELSE @,
                   !.rate_limit = IF IsSome(rate_limit) THEN Some(Unwrap(rate_limit)) ELSE @,
                   !.enabled = IF IsSome(enabled) THEN Unwrap(enabled) ELSE @])

\* update_upstream as one call: get_by_id (NotFound), the partial update
\* (Validation), upstreams.update.
update_upstream(U, t, id, req) ==
    LET existing == upstream_get_by_id(U, t, id) IN
    IF ~IsSome(existing) THEN [res |-> Err("NotFound"), U |-> U]
    ELSE LET patched == ApplyUpstreamPatch(Unwrap(existing), req) IN
         IF ~patched.ok THEN [res |-> patched, U |-> U]
         ELSE MapRepoErr(UpstreamRepoUpdate(U, patched.value))

\* resolve_route / list_routes delegate to the route repository.
resolve_route(S, I, t, u, method, path) ==
    IF IsSome(find_matching(S, I, t, u, method, path))
    THEN Ok(Unwrap(find_matching(S, I, t, u, method, path))) ELSE Err("NotFound")

list_routes(S, I, t, u, top, skip) == list_by_upstream(S, I, t, u, top, skip)

-----------------------------------------------------------------------------
(* Route matching specification: routes are created in any order with      *)
(* any match rules, and find_matching is called with any arguments.        *)

MatchUpstreams == {1, 2}

P_empty == <<>>
P_a == <<"/", "a">>
P_ab == <<"/", "a", "/", "b">>

M_GET == <<"G","E","T">>
M_get == <<"g","e","t">>
M_POST == <<"P","O","S","T">>
M_HEAD == <<"H","E","A","D">>

\* (tenant, upstream, http, priority, enabled) of the routes created here:
\* every path with every priority under one tenant and upstream, and one
\* variation of each other field.
MatchRouteInputs ==
    {<<"tA", 1, Some(MkHttp({"Get"}, p)), prio, TRUE>> :
        p \in {P_empty, P_a, P_ab}, prio \in {I32_MIN, -1, 7}}
    \cup {<<"tB", 1, Some(MkHttp({"Get"}, P_a)), 9, TRUE>>,
          <<"tA", 2, Some(MkHttp({"Get"}, P_a)), 9, TRUE>>,
          <<"tA", 1, Some(MkHttp({"Get"}, P_ab)), 9, FALSE>>,
          <<"tA", 1, None, 9, TRUE>>,
          <<"tA", 1, Some(MkHttp({"Post", "Put"}, P_ab)), 9, TRUE>>}

MatchMethods == {M_GET, M_get, M_POST, M_HEAD}
MatchPaths == {P_empty, P_a, P_ab}

NoCall == [called |-> FALSE]

Procs == 1..NProcs

\* The tasks that serve proxy requests: axum runs one task per connection,
\* and every task calls proxy_request on the one shared service.
PxTasks == {1, 2}
Idle == [pc |-> "idle"]

\* The variables a specification does not use stay as constructed.
\* The data plane before any request: no request in flight, no bucket.
InitDP ==
    /\ requests = [task \in PxTasks |-> Idle]
    /\ pxCount = 0
    /\ buckets = EmptyMap
    /\ now = 0
    /\ debitLog = <<>>
    /\ rl = [p \in Procs |-> Idle]

InitCP ==
    /\ upstreams = EmptyMap
    /\ nextUid = 0
    /\ proc = [p \in Procs |-> Idle]
    /\ last = [op |-> "none"]
    /\ InitDP

InitMatch ==
    /\ store = EmptyMap
    /\ upstream_index = EmptyMap
    /\ nextRid = 0
    /\ fm = NoCall
    /\ InitCP

\* InMemoryRouteRepo::create with a fresh route id.
MatchCreate ==
    /\ nextRid < MatchMaxRoutes
    /\ \E inp \in MatchRouteInputs :
         LET route == MkRoute(nextRid + 1, inp[1], inp[2], inp[3], inp[4], inp[5]) IN
         /\ store' = RepoCreateStore(store, route)
         /\ upstream_index' = RepoCreateIndex(upstream_index, route)
    /\ nextRid' = nextRid + 1
    /\ fm' = NoCall
    /\ UNCHANGED <<upstreams, nextUid, proc, last, dpVars>>

\* InMemoryRouteRepo::find_matching.
MatchFind ==
    /\ \E t \in Tenants, u \in MatchUpstreams, m \in MatchMethods, p \in MatchPaths :
         fm' = [called |-> TRUE, t |-> t, u |-> u, method |-> m, path |-> p,
                res |-> find_matching(store, upstream_index, t, u, m, p)]
    /\ UNCHANGED <<store, upstream_index, nextRid, upstreams, nextUid, proc, last, dpVars>>

NextMatch == MatchCreate \/ MatchFind

SpecMatch == InitMatch /\ [][NextMatch]_vars

\* The routes the specification of find_matching calls candidates.
Candidates(t, u, method, path) ==
    {id \in DOMAIN store :
        /\ store[id].upstream_id = u
        /\ IsCandidate(store[id], t, parse_method(method), path)}

\* C6: find_matching returns a route exactly when a stored route is a
\* candidate (same tenant and upstream, enabled, http block whose methods
\* contain the parsed method, request path starting with the route path);
\* the returned route is a candidate; an unparsable method finds nothing.
C6_FindIffCandidate ==
    fm.called =>
        LET C == Candidates(fm.t, fm.u, fm.method, fm.path) IN
        /\ IsSome(fm.res) <=> C /= {}
        /\ IsSome(fm.res) => Unwrap(fm.res).id \in C
        /\ parse_method(fm.method) = None => fm.res = None

\* C7: a returned route has the longest path among the candidates and,
\* among those with that path length, the greatest priority.
C7_LongestThenPriority ==
    (fm.called /\ IsSome(fm.res)) =>
        LET r == Unwrap(fm.res)
            len(id) == Len(Unwrap(store[id].http).path)
        IN  \A id \in Candidates(fm.t, fm.u, fm.method, fm.path) :
              /\ len(id) <= len(r.id)
              /\ len(id) = len(r.id) => store[id].priority <= r.priority

\* C7 witness: a call that had to choose among two candidates, one of them
\* with priority i32::MIN, and returned the later-created one.
C7_Witness ==
    /\ fm.called /\ IsSome(fm.res)
    /\ Cardinality(Candidates(fm.t, fm.u, fm.method, fm.path)) = 2
    /\ \E id \in Candidates(fm.t, fm.u, fm.method, fm.path) :
         store[id].priority = I32_MIN
    /\ Unwrap(fm.res).id = 2

\* C6 witness of the failing case: the only candidate has the empty path
\* and priority i32::MIN.
C6_Witness ==
    /\ fm.called
    /\ \E id \in DOMAIN store :
         /\ Candidates(fm.t, fm.u, fm.method, fm.path) = {id}
         /\ store[id].priority = I32_MIN
         /\ Unwrap(store[id].http).path = <<>>
-----------------------------------------------------------------------------
(* Concurrent control plane: NProcs tasks call create_upstream,            *)
(* create_route, delete_route and delete_upstream; every repository call   *)
(* (one DashMap operation) is one step, and the steps of different tasks   *)
(* interleave freely.                                                      *)

A_a == <<"a">>
A_b == <<"b">>
H_h == <<"h">>

\* CreateUpstreamRequest values of the concurrent specifications.
CPUpstreamReqs ==
    {[alias |-> Some(A_a), endpoints |-> <<MkEndpoint("Https", H_h, 443)>>, enabled |-> TRUE]}

\* (http, priority, enabled, rate_limit) of CreateRouteRequest.
CPRouteInputs ==
    {<<Some(MkHttp({"Get"}, P_a)), 0, TRUE, Some([rate |-> 1, burst |-> None, cost |-> 1])>>}

SetProc(p, v) == proc' = [proc EXCEPT ![p] = v]

\* create_upstream: alias derivation and validation, then upstreams.create.
CreateUpstream(p) ==
    /\ proc[p] = Idle
    /\ nextUid < MaxUpstreams
    /\ \E t \in Tenants, req \in CPUpstreamReqs :
         LET r == create_upstream(upstreams, t, nextUid + 1, req) IN
         /\ upstreams' = r.U
         /\ nextUid' = IF r.res.ok THEN nextUid + 1 ELSE nextUid
    /\ UNCHANGED <<store, upstream_index, nextRid, fm, proc, last, dpVars>>

\* create_route, first step: upstreams.get_by_id(tenant, req.upstream_id),
\* Validation when it fails; the Route is built with a fresh id.
CreateRouteCheckOf(p, max_routes) ==
    /\ proc[p] = Idle
    /\ nextRid < max_routes
    /\ \E t \in Tenants, u \in 1..nextUid, inp \in CPRouteInputs :
         IF upstream_get_by_id(upstreams, t, u) = None
         THEN UNCHANGED <<proc, nextRid>>
         ELSE /\ SetProc(p, [pc |-> "cr_store",
                             route |-> RouteOfRequest(nextRid + 1, t,
                                                      CreateRouteReq(u, inp))])
              /\ nextRid' = nextRid + 1
    /\ UNCHANGED <<store, upstream_index, fm, upstreams, nextUid, last, dpVars>>

CreateRouteCheck(p) == CreateRouteCheckOf(p, MaxRoutes)

\* routes.create, first step: self.store.insert(route_id, route.clone()).
CreateRouteStore(p) ==
    /\ proc[p].pc = "cr_store"
    /\ store' = RepoCreateStore(store, proc[p].route)
    /\ SetProc(p, [proc[p] EXCEPT !.pc = "cr_index"])
    /\ UNCHANGED <<upstream_index, nextRid, fm, upstreams, nextUid, last, dpVars>>

\* routes.create, second step: the push on the upstream index entry.
CreateRouteIndex(p) ==
    /\ proc[p].pc = "cr_index"
    /\ upstream_index' = RepoCreateIndex(upstream_index, proc[p].route)
    /\ SetProc(p, Idle)
    /\ UNCHANGED <<store, nextRid, fm, upstreams, nextUid, last, dpVars>>

\* delete_route -> routes.delete, first step: store.get filtered by tenant.
DeleteRouteGetOf(p, tenants, ids) ==
    /\ proc[p] = Idle
    /\ \E t \in tenants, id \in ids :
         IF get_by_id(store, t, id) = None
         THEN UNCHANGED proc
         ELSE SetProc(p, [pc |-> "dr_remove", t |-> t, id |-> id,
                          upstream_id |-> store[id].upstream_id])
    /\ UNCHANGED <<store, upstream_index, nextRid, fm, upstreams, nextUid, last, dpVars>>

DeleteRouteGet(p) == DeleteRouteGetOf(p, Tenants, 1..nextRid)

\* routes.delete, second step: self.store.remove(&id).
DeleteRouteRemove(p) ==
    /\ proc[p].pc = "dr_remove"
    /\ store' = RepoDeleteRemove(store, proc[p].id)
    /\ SetProc(p, [proc[p] EXCEPT !.pc = "dr_retain"])
    /\ UNCHANGED <<upstream_index, nextRid, fm, upstreams, nextUid, last, dpVars>>

\* routes.delete, third step: ids.retain on the upstream index entry; the
\* call returns Ok.  In this specification `last` holds the last
\* delete_route call that returned success.
DeleteRouteRetain(p) ==
    /\ proc[p].pc = "dr_retain"
    /\ upstream_index' = RepoDeleteRetain(upstream_index, proc[p].upstream_id, proc[p].id)
    /\ last' = [op |-> "delete_route", t |-> proc[p].t, id |-> proc[p].id]
    /\ SetProc(p, Idle)
    /\ UNCHANGED <<store, nextRid, fm, upstreams, nextUid, dpVars>>

\* UpdateRouteRequest values: each field an Option.
CPRouteUpdateReqs == {[priority |-> Some(1)]}

\* The partial update of update_route applied to the row read:
\* UpdateRouteRequest { match_rules.http, rate_limit, priority, enabled }.
ApplyRoutePatch(existing, req) ==
    LET http == ReqOpt(req, "http")
        rate_limit == ReqOpt(req, "rate_limit")
        priority == ReqOpt(req, "priority")
        enabled == ReqOpt(req, "enabled")
    IN  [existing EXCEPT
           !.http = IF IsSome(http) THEN Unwrap(http) ELSE @,
           !.rate_limit = IF IsSome(rate_limit) THEN Some(Unwrap(rate_limit)) ELSE @,
           !.priority = IF IsSome(priority) THEN Unwrap(priority) ELSE @,
           !.enabled = IF IsSome(enabled) THEN Unwrap(enabled) ELSE @]

\* update_route, first step: routes.get_by_id(tenant, id), NotFound when it
\* fails; the partial update is applied to the copy.
UpdateRouteGet(p) ==
    /\ proc[p] = Idle
    /\ \E t \in Tenants, id \in 1..nextRid, req \in CPRouteUpdateReqs :
         IF get_by_id(store, t, id) = None
         THEN UNCHANGED proc
         ELSE SetProc(p, [pc |-> "ur_check",
                          route |-> ApplyRoutePatch(Unwrap(get_by_id(store, t, id)), req)])
    /\ UNCHANGED <<store, upstream_index, nextRid, fm, upstreams, nextUid, last, dpVars>>

\* routes.update, first step: self.store.contains_key(&route.id), NotFound
\* when the row is absent.
UpdateRouteCheck(p) ==
    /\ proc[p].pc = "ur_check"
    /\ IF proc[p].route.id \in DOMAIN store
       THEN SetProc(p, [proc[p] EXCEPT !.pc = "ur_insert"])
       ELSE SetProc(p, Idle)
    /\ UNCHANGED <<store, upstream_index, nextRid, fm, upstreams, nextUid, last, dpVars>>

\* routes.update, second step: self.store.insert(route.id, route.clone()).
UpdateRouteInsert(p) ==
    /\ proc[p].pc = "ur_insert"
    /\ store' = MapInsert(store, proc[p].route.id, proc[p].route)
    /\ SetProc(p, Idle)
    /\ UNCHANGED <<upstream_index, nextRid, fm, upstreams, nextUid, last, dpVars>>

\* Where delete_by_upstream continues once `ids` are left to visit.
DbuNextPc(ids, surviving) ==
    IF ids /= <<>> THEN "dbu_loop"
    ELSE IF surviving /= <<>> THEN "dbu_reindex"
    ELSE "del_up"

\* delete_upstream -> routes.delete_by_upstream, first step:
\* upstream_index.remove(&upstream_id) hands over the id list.
DeleteUpstreamIndexRemove(p) ==
    /\ proc[p] = Idle
    /\ \E t \in Tenants, u \in 1..nextUid :
         LET ids == IndexGet(upstream_index, u) IN
         /\ upstream_index' = DbuIndexRemove(upstream_index, u)
         /\ SetProc(p, [pc |-> DbuNextPc(ids, <<>>), t |-> t, u |-> u, ids |-> ids,
                        surviving |-> <<>>, deleted |-> 0])
    /\ UNCHANGED <<store, nextRid, fm, upstreams, nextUid, last, dpVars>>

\* One step of the rest of delete_by_upstream: store.remove(&id) for the
\* next id; store.insert(id, route) for a row of another tenant; the final
\* upstream_index.insert(upstream_id, surviving_ids).
DeleteByUpstreamStep(p) ==
    /\ proc[p].pc \in {"dbu_loop", "dbu_putback", "dbu_reindex"}
    /\ LET me == proc[p] IN
       CASE me.pc = "dbu_loop" ->
              LET id == Head(me.ids)
                  rest == Tail(me.ids)
              IN  /\ store' = MapRemove(store, id)
                  /\ upstream_index' = upstream_index
                  /\ IF id \notin DOMAIN store
                     THEN SetProc(p, [me EXCEPT !.ids = rest,
                                                !.pc = DbuNextPc(rest, me.surviving)])
                     ELSE IF DbuOwned(store[id], me.t)
                     THEN SetProc(p, [me EXCEPT !.ids = rest, !.deleted = @ + 1,
                                                !.pc = DbuNextPc(rest, me.surviving)])
                     ELSE SetProc(p, [pc |-> "dbu_putback", t |-> me.t, u |-> me.u,
                                      ids |-> rest, surviving |-> me.surviving,
                                      deleted |-> me.deleted, held |-> store[id]])
         [] me.pc = "dbu_putback" ->
              /\ store' = MapInsert(store, me.held.id, me.held)
              /\ upstream_index' = upstream_index
              /\ SetProc(p, [pc |-> DbuNextPc(me.ids, Append(me.surviving, me.held.id)),
                             t |-> me.t, u |-> me.u, ids |-> me.ids,
                             surviving |-> Append(me.surviving, me.held.id),
                             deleted |-> me.deleted])
         [] me.pc = "dbu_reindex" ->
              /\ store' = store
              /\ upstream_index' = DbuReindex(upstream_index, me.u, me.surviving)
              /\ SetProc(p, [me EXCEPT !.pc = "del_up"])
    /\ UNCHANGED <<nextRid, fm, upstreams, nextUid, last, dpVars>>

\* delete_upstream, last step: upstreams.delete(tenant, id).
DeleteUpstreamRow(p) ==
    /\ proc[p].pc = "del_up"
    /\ upstreams' = UpstreamRepoDelete(upstreams, proc[p].t, proc[p].u).U
    /\ SetProc(p, Idle)
    /\ UNCHANGED <<store, upstream_index, nextRid, fm, nextUid, last, dpVars>>

InitRoutes ==
    /\ store = EmptyMap
    /\ upstream_index = EmptyMap
    /\ nextRid = 0
    /\ fm = NoCall
    /\ InitCP

NextRoutes ==
    \E p \in Procs :
        \/ CreateUpstream(p)
        \/ CreateRouteCheck(p)
        \/ CreateRouteStore(p)
        \/ CreateRouteIndex(p)
        \/ DeleteRouteGet(p)
        \/ DeleteRouteRemove(p)
        \/ DeleteRouteRetain(p)
        \/ UpdateRouteGet(p)
        \/ UpdateRouteCheck(p)
        \/ UpdateRouteInsert(p)
        \/ DeleteUpstreamIndexRemove(p)
        \/ DeleteByUpstreamStep(p)
        \/ DeleteUpstreamRow(p)

SpecRoutes == InitRoutes /\ [][NextRoutes]_vars

\* The upstream ids and the (method, path) pairs an observer may ask about.
ObsMethods == {M_GET, M_POST}
ObsPaths == {P_a, P_ab}

\* C1: an observer that finds upstream u gone for tenant t (get_upstream
\* returns NotFound) finds no route of t under u: list_routes(t, u) is empty
\* and resolve_route(t, u, method, path) returns NotFound.
C1_GoneUpstreamHasNoRoutes ==
    \A t \in Tenants, u \in 1..nextUid :
        ~get_upstream(upstreams, t, u).ok =>
            /\ list_routes(store, upstream_index, t, u, DefaultTop, 0) = <<>>
            /\ \A m \in ObsMethods, path \in ObsPaths :
                 ~resolve_route(store, upstream_index, t, u, m, path).ok

\* C1 failing case: no call is in progress, the upstream is gone and a
\* route under it is listed and resolved.
C1_Witness ==
    /\ \A p \in Procs : proc[p] = Idle
    /\ \E t \in Tenants, u \in 1..nextUid :
         /\ ~get_upstream(upstreams, t, u).ok
         /\ list_routes(store, upstream_index, t, u, DefaultTop, 0) /= <<>>
         /\ resolve_route(store, upstream_index, t, u, M_GET, P_ab).ok

\* C3: every stored route refers to a stored upstream of the same tenant.
C3_NoOrphanNoCrossTenantRoute ==
    \A id \in DOMAIN store :
        /\ store[id].upstream_id \in DOMAIN upstreams
        /\ upstreams[store[id].upstream_id].tenant_id = store[id].tenant_id

\* C3 failing case: a stored route whose upstream is not stored, with no
\* call in progress.
C3_Witness ==
    /\ \A p \in Procs : proc[p] = Idle
    /\ \E id \in DOMAIN store : store[id].upstream_id \notin DOMAIN upstreams

\* A route is fully present (a store row listed under its upstream_id) or
\* fully absent (no store row and listed under no upstream id).
FullyPresentOrAbsent(id) ==
    IF id \in DOMAIN store
    THEN id \in SeqToSet(IndexGet(upstream_index, store[id].upstream_id))
    ELSE \A u \in DOMAIN upstream_index : id \notin SeqToSet(upstream_index[u])

\* C4: while a cascade delete runs, every route is fully present or fully
\* absent; stated for the case in which the cascade delete is the only
\* call in progress.
C4_CascadeRowsPresentOrAbsent ==
    \A p \in Procs :
        (/\ proc[p].pc \in {"dbu_loop", "dbu_putback", "dbu_reindex"}
         /\ \A q \in Procs \ {p} : proc[q] = Idle)
        => \A id \in 1..nextRid : FullyPresentOrAbsent(id)

\* C4 failing case: during a cascade delete that runs alone, get_by_id
\* returns a route that list_by_upstream does not list.
C4_Witness ==
    \E p \in Procs :
        /\ proc[p].pc = "dbu_loop"
        /\ \A q \in Procs \ {p} : proc[q] = Idle
        /\ \E id \in DOMAIN store :
             /\ IsSome(get_by_id(store, proc[p].t, id))
             /\ list_by_upstream(store, upstream_index, proc[p].t,
                                 store[id].upstream_id, DefaultTop, 0) = <<>>
-----------------------------------------------------------------------------
(* One call at a time: every action is a whole call of the route           *)
(* repository or of the control plane, and `last` keeps the call, its      *)
(* result and the repository as it was before the call.  Routes are        *)
(* created through the repository, under any tenant and upstream id.       *)

\* Mutant of repo_delete: the ownership check is missing.
repo_delete_any_tenant(S, I, t, id) ==
    IF id \notin DOMAIN S
    THEN [res |-> Err("NotFound"), store |-> S, index |-> I]
    ELSE [res |-> Ok(id), store |-> RepoDeleteRemove(S, id),
          index |-> RepoDeleteRetain(I, S[id].upstream_id, id)]

\* InMemoryRouteRepo::delete as one uninterrupted call.
repo_delete(S, I, t, id) ==
    IF get_by_id(S, t, id) = None
    THEN [res |-> Err("NotFound"), store |-> S, index |-> I]
    ELSE [res |-> Ok(id), store |-> RepoDeleteRemove(S, id),
          index |-> RepoDeleteRetain(I, S[id].upstream_id, id)]

\* delete_upstream as one uninterrupted call: the cascade, whose result is
\* dropped, then upstreams.delete.
delete_upstream(U, S, I, t, u) ==
    LET c == delete_by_upstream(S, I, t, u)
        d == UpstreamRepoDelete(U, t, u)
    IN  [res |-> d.res, U |-> d.U, store |-> c.store, index |-> c.index,
         deleted |-> c.deleted]

\* Mutant of create_route: the upstream is looked up under any tenant.
create_route_any_tenant(U, S, I, t, id, req) ==
    IF req.upstream_id \notin DOMAIN U
    THEN [res |-> Err("Validation"), store |-> S, index |-> I]
    ELSE LET route == RouteOfRequest(id, t, req)
         IN  [res |-> Ok(route), store |-> RepoCreateStore(S, route),
              index |-> RepoCreateIndex(I, route)]

\* create_route as one uninterrupted call with the fresh id `id`:
\* upstreams.get_by_id(tenant, req.upstream_id), Validation when it fails,
\* then routes.create.
create_route(U, S, I, t, id, req) ==
    IF ~IsSome(upstream_get_by_id(U, t, req.upstream_id))
    THEN [res |-> Err("Validation"), store |-> S, index |-> I]
    ELSE LET route == RouteOfRequest(id, t, req)
         IN  [res |-> Ok(route), store |-> RepoCreateStore(S, route),
              index |-> RepoCreateIndex(I, route)]

SeqUpstreamReqs ==
    {[alias |-> None, endpoints |-> <<MkEndpoint("Https", H_h, 443)>>, enabled |-> TRUE]}

SeqRouteInputs ==
    {<<Some(MkHttp({"Get"}, P_a)), 0, TRUE, Some([rate |-> 1, burst |-> None, cost |-> 1])>>}

Before == [store |-> store, index |-> upstream_index, upstreams |-> upstreams]

\* create_upstream
SeqCreateUpstream ==
    /\ nextUid < SeqMaxUpstreams
    /\ \E t \in Tenants, req \in SeqUpstreamReqs :
         LET r == create_upstream(upstreams, t, nextUid + 1, req) IN
         /\ upstreams' = r.U
         /\ nextUid' = IF r.res.ok THEN nextUid + 1 ELSE nextUid
         /\ last' = [op |-> "create_upstream", t |-> t, res |-> r.res, before |-> Before]
    /\ UNCHANGED <<store, upstream_index, nextRid, fm, proc, dpVars>>

\* InMemoryRouteRepo::create
SeqRepoCreate ==
    /\ nextRid < SeqMaxRoutes
    /\ \E t \in Tenants, u \in 1..SeqMaxUpstreams, inp \in SeqRouteInputs :
         LET route == RouteOfRequest(nextRid + 1, t, CreateRouteReq(u, inp)) IN
         /\ store' = RepoCreateStore(store, route)
         /\ upstream_index' = RepoCreateIndex(upstream_index, route)
         /\ last' = [op |-> "create", t |-> t, u |-> u, res |-> Ok(route), before |-> Before]
    /\ nextRid' = nextRid + 1
    /\ UNCHANGED <<fm, upstreams, nextUid, proc, dpVars>>

\* create_route, with upstream ids that exist, that belong to the other
\* tenant, that were deleted and that were never given out.
SeqCreateRoute ==
    /\ nextRid < SeqMaxRoutes
    /\ \E t \in Tenants, u \in 1..(SeqMaxUpstreams + 1), inp \in SeqRouteInputs :
         LET r == create_route(upstreams, store, upstream_index, t, nextRid + 1,
                               CreateRouteReq(u, inp)) IN
         /\ store' = r.store
         /\ upstream_index' = r.index
         /\ nextRid' = IF r.res.ok THEN nextRid + 1 ELSE nextRid
         /\ last' = [op |-> "create_route", t |-> t, u |-> u, res |-> r.res,
                     before |-> Before]
    /\ UNCHANGED <<fm, upstreams, nextUid, proc, dpVars>>

\* InMemoryRouteRepo::delete
SeqRepoDelete ==
    /\ \E t \in Tenants, id \in 1..nextRid :
         LET r == repo_delete(store, upstream_index, t, id) IN
         /\ store' = r.store
         /\ upstream_index' = r.index
         /\ last' = [op |-> "delete", t |-> t, id |-> id, res |-> r.res, before |-> Before]
    /\ UNCHANGED <<nextRid, fm, upstreams, nextUid, proc, dpVars>>

\* delete_upstream
SeqDeleteUpstream ==
    /\ \E t \in Tenants, u \in 1..SeqMaxUpstreams :
         LET r == delete_upstream(upstreams, store, upstream_index, t, u) IN
         /\ upstreams' = r.U
         /\ store' = r.store
         /\ upstream_index' = r.index
         /\ last' = [op |-> "delete_upstream", t |-> t, u |-> u, res |-> r.res,
                     deleted |-> r.deleted, before |-> Before]
    /\ UNCHANGED <<nextRid, fm, nextUid, proc, dpVars>>

InitSeq == InitRoutes

NextSeq ==
    \/ SeqCreateUpstream
    \/ SeqRepoCreate
    \/ SeqCreateRoute
    \/ SeqRepoDelete
    \/ SeqDeleteUpstream

SpecSeq == InitSeq /\ [][NextSeq]_vars

\* The route ids a tenant owns under an upstream id in a store.
OwnedUnder(S, t, u) ==
    {id \in DOMAIN S : S[id].tenant_id = t /\ S[id].upstream_id = u}

\* ListQuery values tried by the claims.
Pagings == {<<DefaultTop, 0>>, <<1, 0>>, <<1, 1>>, <<2, 1>>, <<0, 0>>}

\* C2: after delete_upstream(t, u) returns, list_by_upstream(t, u) is empty
\* under every paging, and for every other tenant t2 the routes under u are
\* the same set with the same contents, and get_by_id, list_by_upstream and
\* find_matching return to t2 what they returned before the call.
C2_CascadeFrame ==
    last.op = "delete_upstream" =>
        LET t == last.t
            u == last.u
            B == last.before
        IN  /\ \A q \in Pagings :
                 list_by_upstream(store, upstream_index, t, u, q[1], q[2]) = <<>>
            /\ \A t2 \in Tenants \ {t} :
                 /\ OwnedUnder(store, t2, u) = OwnedUnder(B.store, t2, u)
                 /\ \A id \in OwnedUnder(B.store, t2, u) :
                      /\ store[id] = B.store[id]
                      /\ get_by_id(store, t2, id) = Some(B.store[id])
                 /\ \A q \in Pagings :
                      list_by_upstream(store, upstream_index, t2, u, q[1], q[2])
                        = list_by_upstream(B.store, B.index, t2, u, q[1], q[2])
                 /\ Len(list_by_upstream(store, upstream_index, t2, u, DefaultTop, 0))
                      = Cardinality(OwnedUnder(B.store, t2, u))
                 /\ \A m \in ObsMethods, path \in ObsPaths :
                      find_matching(store, upstream_index, t2, u, m, path)
                        = find_matching(B.store, B.index, t2, u, m, path)

\* C2 witness: a delete_upstream that removed a route of its tenant while
\* two routes of another tenant under the same upstream id stayed, one of
\* them listed before the removed one.
C2_Witness ==
    /\ last.op = "delete_upstream"
    /\ last.deleted >= 1
    /\ \E t2 \in Tenants \ {last.t} :
         /\ Cardinality(OwnedUnder(store, t2, last.u)) = 2
         /\ IsSome(find_matching(store, upstream_index, t2, last.u, M_GET, P_ab))
         /\ last.before.store[Head(IndexGet(last.before.index, last.u))].tenant_id = t2

-----------------------------------------------------------------------------
(* Rate limiter: one token bucket per key.  Time is counted in refill      *)
(* windows: a bucket gains sustained.rate tokens per window, up to its     *)
(* capacity.                                                               *)

\* RateLimitConfig { sustained.rate, burst: Option<capacity>, cost }
MkRateLimit(rate, burst, cost) == [rate |-> rate, burst |-> burst, cost |-> cost]

\* Capacity: burst.capacity, by default sustained.rate.
BucketCapacity(cfg) == IF IsSome(cfg.burst) THEN Unwrap(cfg.burst) ELSE cfg.rate

Min(a, b) == IF a <= b THEN a ELSE b

\* The bucket of a key, None before the key's first admission.
BucketGet(B, key) == IF key \in DOMAIN B THEN Some(B[key]) ELSE None

\* The cell an admission starts from: a bucket is created full at time t.
BucketCell(seen, cfg, t) ==
    IF IsSome(seen) THEN Unwrap(seen) ELSE [tokens |-> BucketCapacity(cfg), last |-> t]

\* Refill of a cell up to time t.
Refill(cell, cfg, t) ==
    [tokens |-> Min(BucketCapacity(cfg), cell.tokens + cfg.rate * (t - cell.last)),
     last |-> t]

\* One admission on a cell at time t: refill, then debit cfg.cost when the
\* tokens suffice.  A refused admission leaves the cell as it was.
Admit(cell, cfg, t) ==
    LET r == Refill(cell, cfg, t) IN
    IF r.tokens >= cfg.cost
    THEN [ok |-> TRUE, cell |-> [r EXCEPT !.tokens = @ - cfg.cost]]
    ELSE [ok |-> FALSE, cell |-> cell]

\* Mutant of Publish: a refused admission stores the bucket drained.
PublishDrainsRefused(B, key, a) ==
    IF a.ok THEN MapInsert(B, key, a.cell)
    ELSE MapInsert(B, key, [a.cell EXCEPT !.tokens = 0])

\* The bucket table after an admission decision: only an accepted
\* admission writes its cell.
Publish(B, key, a) == IF a.ok THEN MapInsert(B, key, a.cell) ELSE B

\* try_consume(key, cfg) at time t as one atomic step.
try_consume(B, key, cfg, t) ==
    LET a == Admit(BucketCell(BucketGet(B, key), cfg, t), cfg, t) IN
    [ok |-> a.ok, B |-> Publish(B, key, a)]

\* The retry_after_secs a refusal at time t may carry: none, or
\* ceil(deficit / refill rate), with one refill window per second.
RetryAfterHints(B, key, cfg, t) ==
    LET r == Refill(BucketCell(BucketGet(B, key), cfg, t), cfg, t)
        deficit == cfg.cost - r.tokens
    IN  {None, Some((deficit + cfg.rate - 1) \div cfg.rate)}

\* format!("upstream:{}", upstream.id) and format!("route:{}", route.id)
UpstreamKey(id) == <<"upstream", id>>
RouteKey(id) == <<"route", id>>

-----------------------------------------------------------------------------
(* Proxy pipeline: the pure parts of proxy_request.                        *)

\* path.split('/')
RECURSIVE SplitSlash(_, _)
SplitSlash(s, cur) ==
    IF s = <<>> THEN <<cur>>
    ELSE IF Head(s) = "/" THEN <<cur>> \o SplitSlash(Tail(s), <<>>)
    ELSE SplitSlash(Tail(s), Append(cur, Head(s)))

\* The loop of normalize_path, leaving it at the first ".." it resolves.
RECURSIVE NormSegmentsStopsAtPop(_, _)
NormSegmentsStopsAtPop(segs, acc) ==
    IF segs = <<>> THEN acc
    ELSE LET seg == Head(segs) IN
         IF seg = <<>> \/ seg = <<".">> THEN NormSegmentsStopsAtPop(Tail(segs), acc)
         ELSE IF seg = <<".", ".">>
              THEN (IF acc = <<>> THEN acc ELSE SubSeq(acc, 1, Len(acc) - 1)) \o Tail(segs)
              ELSE NormSegmentsStopsAtPop(Tail(segs), Append(acc, seg))

\* The loop of normalize_path over the segments.
RECURSIVE NormSegments(_, _)
NormSegments(segs, acc) ==
    IF segs = <<>> THEN acc
    ELSE LET seg == Head(segs) IN
         IF seg = <<>> \/ seg = <<".">> THEN NormSegments(Tail(segs), acc)
         ELSE IF seg = <<".", ".">>
              THEN NormSegments(Tail(segs),
                                IF acc = <<>> THEN acc ELSE SubSeq(acc, 1, Len(acc) - 1))
              ELSE NormSegments(Tail(segs), Append(acc, seg))

\* segments.join("/")
RECURSIVE JoinSlash(_)
JoinSlash(segs) ==
    IF segs = <<>> THEN <<>>
    ELSE IF Len(segs) = 1 THEN Head(segs)
    ELSE Head(segs) \o <<"/">> \o JoinSlash(Tail(segs))

normalize_path(path) ==
    (IF StartsWith(path, <<"/">>) THEN <<"/">> ELSE <<>>)
        \o JoinSlash(NormSegments(SplitSlash(path, <<>>), <<>>))

\* s.strip_prefix(prefix).unwrap_or(default)
StripPrefixOr(s, prefix, default) ==
    IF StartsWith(s, prefix) THEN SubSeq(s, Len(prefix) + 1, Len(s)) ELSE default

\* trimmed.find('/'): the first index of a slash, 0 when there is none.
FindSlash(s) ==
    IF \E i \in 1..Len(s) : s[i] = "/"
    THEN CHOOSE i \in 1..Len(s) : s[i] = "/" /\ \A j \in 1..(i - 1) : s[j] /= "/"
    ELSE 0

\* (alias, path_suffix) of the request path.
ParseAliasSuffix(path) ==
    LET normalized == normalize_path(path)
        trimmed == StripPrefixOr(normalized, <<"/">>, normalized)
        pos == FindSlash(trimmed)
    IN  IF pos > 0
        THEN [alias |-> SubSeq(trimmed, 1, pos - 1),
              path_suffix |-> SubSeq(trimmed, pos, Len(trimmed))]
        ELSE [alias |-> trimmed, path_suffix |-> <<>>]

\* Mutant of resolve_upstream: the enabled check is missing.
resolve_upstream_any(U, t, alias) ==
    LET found == upstream_get_by_alias(U, t, alias) IN
    IF ~IsSome(found) THEN Err("NotFound")
    ELSE Ok(Unwrap(found))

\* resolve_upstream: get_by_alias, then the enabled check.
resolve_upstream(U, t, alias) ==
    LET found == upstream_get_by_alias(U, t, alias) IN
    IF ~IsSome(found) THEN Err("NotFound")
    ELSE IF ~Unwrap(found).enabled THEN Err("UpstreamDisabled")
    ELSE Ok(Unwrap(found))

\* Mutant of QueryAllowed: only the first key is looked up.
QueryAllowedFirstKey(route, query) ==
    ~(IsSome(route.http) /\ query /= <<>>)
        \/ \A i \in 1..1 : query[i] \in Unwrap(route.http).query_allowlist

\* 2b: the first query key outside the route's allowlist fails the request.
QueryAllowed(route, query) ==
    ~(IsSome(route.http) /\ query /= <<>>)
        \/ \A i \in 1..Len(query) : query[i] \in Unwrap(route.http).query_allowlist

\* Mutant of SuffixAllowed: path_suffix_mode is not looked at.
SuffixAllowedAnyMode(route, path_suffix) ==
    ~(IsSome(route.http) /\ Unwrap(route.http).path_suffix_mode = "Disabled")
        \/ StripPrefixOr(path_suffix, <<>>, <<>>) = path_suffix

\* 2c: with path_suffix_mode Disabled nothing may follow the route path.
SuffixAllowed(route, path_suffix) ==
    ~(IsSome(route.http) /\ Unwrap(route.http).path_suffix_mode = "Disabled")
        \/ StripPrefixOr(path_suffix, Unwrap(route.http).path, <<>>) = <<>>

\* http::HeaderMap: header name (lower case) -> the values held under it, in
\* order.  insert replaces the values of a name, append adds one, remove
\* drops the name.
HeaderInsert(h, n, v) == MapInsert(h, n, <<v>>)
HeaderAppend(h, n, v) == IF n \in DOMAIN h THEN [h EXCEPT ![n] = Append(@, v)]
                         ELSE MapInsert(h, n, <<v>>)
HeaderRemove(h, n) == MapRemove(h, n)

\* HeaderName::from_bytes: a non-empty sequence of token characters (RFC
\* 7230), upper-case letters mapped to lower case.  The length limit of
\* 65535 bytes is above every name of the model.
HeaderNameChars ==
    LowerChars \cup DigitChars
        \cup {"!", "#", "$", "%", "&", "*", "+", "-", ".", "^", "_", "'", GRAVE, "|", "~"}
HeaderNameFromBytes(n) ==
    IF n /= <<>> /\ \A i \in 1..Len(n) : n[i] \in HeaderNameChars \cup UpperChars
    THEN Ok([i \in 1..Len(n) |-> AsciiLowerChar(n[i])])
    ELSE Err("InvalidHeaderName")
HeaderNameOk(n) == HeaderNameFromBytes(n).ok

\* Header names the gateway treats by name.
CONNECTION == <<"c","o","n","n","e","c","t","i","o","n">>
CONTENT_TYPE == <<"c","o","n","t","e","n","t","-","t","y","p","e">>
HOST == <<"h","o","s","t">>
X_OAGW_PREFIX == <<"x","-","o","a","g","w","-">>
X_OAGW_ERROR_SOURCE == <<"x","-","o","a","g","w","-","e","r","r","o","r","-","s","o","u","r","c","e">>
RETRY_AFTER == <<"r","e","t","r","y","-","a","f","t","e","r">>

HOP_BY_HOP_HEADERS ==
    { <<"c","o","n","n","e","c","t","i","o","n">>,
      <<"k","e","e","p","-","a","l","i","v","e">>,
      <<"p","r","o","x","y","-","a","u","t","h","e","n","t","i","c","a","t","e">>,
      <<"p","r","o","x","y","-","a","u","t","h","o","r","i","z","a","t","i","o","n">>,
      <<"t","e">>,
      <<"t","r","a","i","l","e","r">>,
      <<"t","r","a","n","s","f","e","r","-","e","n","c","o","d","i","n","g">>,
      <<"u","p","g","r","a","d","e">> }

STRIPPED_HEADERS ==
    { <<"a","u","t","h","o","r","i","z","a","t","i","o","n">>,
      <<"c","o","o","k","i","e">>,
      <<"p","r","o","x","y","-","a","u","t","h","o","r","i","z","a","t","i","o","n">>,
      <<"s","e","t","-","c","o","o","k","i","e">> }

\* Remove every name of a set from a header map.
HeaderRemoveAll(h, names) == [n \in (DOMAIN h) \ names |-> h[n]]

\* headers::apply_passthrough, the Allowlist arm: for each allowlist entry,
\* lower-cased, insert the first inbound value held under it.
RECURSIVE PassthroughAllowlist(_, _, _)
PassthroughAllowlist(inbound, allowlist, h) ==
    IF allowlist = <<>> THEN h
    ELSE LET name == HeaderNameFromBytes(ToLower(Head(allowlist)))
             n == name.value
             h2 == IF name.ok /\ n \in DOMAIN inbound
                   THEN HeaderInsert(h, n, inbound[n][1]) ELSE h
         IN  PassthroughAllowlist(inbound, Tail(allowlist), h2)

\* The mutant forgets the final removal of the sensitive headers.
apply_passthrough_keeps_sensitive(inbound, mode, allowlist) ==
    LET out == CASE mode = "None" -> EmptyMap
                 [] mode = "All" -> inbound
                 [] mode = "Allowlist" -> PassthroughAllowlist(inbound, allowlist, EmptyMap)
        out2 == IF CONTENT_TYPE \notin DOMAIN out /\ CONTENT_TYPE \in DOMAIN inbound
                THEN HeaderInsert(out, CONTENT_TYPE, inbound[CONTENT_TYPE][1])
                ELSE out
    IN  out2

\* headers::apply_passthrough
apply_passthrough(inbound, mode, allowlist) ==
    LET out == CASE mode = "None" -> EmptyMap
                 [] mode = "All" -> inbound
                 [] mode = "Allowlist" -> PassthroughAllowlist(inbound, allowlist, EmptyMap)
        out2 == IF CONTENT_TYPE \notin DOMAIN out /\ CONTENT_TYPE \in DOMAIN inbound
                THEN HeaderInsert(out, CONTENT_TYPE, inbound[CONTENT_TYPE][1])
                ELSE out
    IN  HeaderRemoveAll(out2, STRIPPED_HEADERS)

\* str::split(',') as a sequence of pieces.
RECURSIVE SplitComma(_, _)
SplitComma(s, cur) ==
    IF s = <<>> THEN <<cur>>
    ELSE IF Head(s) = "," THEN <<cur>> \o SplitComma(Tail(s), <<>>)
         ELSE SplitComma(Tail(s), Append(cur, Head(s)))

\* str::trim: white space removed at both ends.
RECURSIVE Trim(_)
Trim(s) ==
    IF s = <<>> THEN s
    ELSE IF Head(s) \in WhiteSpaceChars THEN Trim(Tail(s))
         ELSE IF s[Len(s)] \in WhiteSpaceChars THEN Trim(SubSeq(s, 1, Len(s) - 1))
              ELSE s

\* A byte of a header value outside visible ASCII.
BYTE_FF == "\\xff"

\* HeaderValue::to_str: only visible ASCII and the tab convert.
ToStr(v) ==
    IF \A i \in 1..Len(v) : v[i] \in AsciiVisible \cup {"\t"}
    THEN Ok(v) ELSE Err("ToStrError")

\* `named` of strip_hop_by_hop: the first Connection value, when it converts
\* to a string, split on ',', each token trimmed and lower-cased, empty
\* tokens dropped.
ConnectionNames(h) ==
    IF CONNECTION \notin DOMAIN h \/ ~ToStr(h[CONNECTION][1]).ok THEN {}
    ELSE LET pieces == SplitComma(h[CONNECTION][1], <<>>)
         IN  { ToLower(Trim(pieces[i])) : i \in 1..Len(pieces) } \ {<<>>}

\* The names of `named` that HeaderName::from_bytes accepts.
ConnectionHeaderNames(h) ==
    { HeaderNameFromBytes(n).value : n \in { m \in ConnectionNames(h) : HeaderNameOk(m) } }

\* Mutant of strip_hop_by_hop: the static list is not removed.
strip_hop_by_hop_named_only(h) ==
    HeaderRemoveAll(HeaderRemoveAll(h, ConnectionHeaderNames(h)), {})

\* headers::strip_hop_by_hop: the headers named by Connection, then the
\* static list.
strip_hop_by_hop(h) ==
    HeaderRemoveAll(HeaderRemoveAll(h, ConnectionHeaderNames(h)), HOP_BY_HOP_HEADERS)

\* Mutant of strip_internal_headers: the internal headers stay.
strip_internal_headers_keeps(h) ==
    [n \in { m \in DOMAIN h : TRUE } |-> h[n]]

\* headers::strip_internal_headers: every name starting with x-oagw-.
strip_internal_headers(h) ==
    [n \in { m \in DOMAIN h : ~StartsWith(m, X_OAGW_PREFIX) } |-> h[n]]

\* headers::sanitize_response_headers
sanitize_response_headers(h) == strip_internal_headers(strip_hop_by_hop(h))

\* RequestHeaderRules { set, add, remove, passthrough, passthrough_allowlist };
\* set and add are sequences of <<name, value>> with names distinct after
\* lower-casing, so the map's iteration order does not matter.
MkRules(set, add, remove, passthrough, allowlist) ==
    [set |-> set, add |-> add, remove |-> remove,
     passthrough |-> passthrough, passthrough_allowlist |-> allowlist]

RECURSIVE RulesRemove(_, _)
RulesRemove(h, names) ==
    IF names = <<>> THEN h
    ELSE RulesRemove(IF HeaderNameOk(ToLower(Head(names)))
                     THEN HeaderRemove(h, HeaderNameFromBytes(ToLower(Head(names))).value)
                     ELSE h,
                     Tail(names))

\* HeaderValue::from_str succeeds: no control character other than the tab
\* (bytes below 0x20 and 0x7f); characters outside ASCII are accepted.
HeaderValueOk(v) == \A i \in 1..Len(v) : v[i] \notin ControlChars \ {"\t"}

RECURSIVE RulesSet(_, _)
RulesSet(h, pairs) ==
    IF pairs = <<>> THEN h
    ELSE RulesSet(IF HeaderNameOk(ToLower(Head(pairs)[1])) /\ HeaderValueOk(Head(pairs)[2])
                  THEN HeaderInsert(h, HeaderNameFromBytes(ToLower(Head(pairs)[1])).value,
                                    Head(pairs)[2])
                  ELSE h,
                  Tail(pairs))

RECURSIVE RulesAdd(_, _)
RulesAdd(h, pairs) ==
    IF pairs = <<>> THEN h
    ELSE RulesAdd(IF HeaderNameOk(ToLower(Head(pairs)[1])) /\ HeaderValueOk(Head(pairs)[2])
                  THEN HeaderAppend(h, HeaderNameFromBytes(ToLower(Head(pairs)[1])).value,
                                    Head(pairs)[2])
                  ELSE h,
                  Tail(pairs))

\* Mutant of apply_header_rules: set, then remove, then add.
apply_header_rules_set_first(h, rules) ==
    RulesAdd(RulesRemove(RulesSet(h, rules.set), rules.remove), rules.add)

\* headers::apply_header_rules: remove, then set, then add.
apply_header_rules(h, rules) ==
    RulesAdd(RulesSet(RulesRemove(h, rules.remove), rules.set), rules.add)

\* AuthConfig { plugin_type, config }
MkAuth(plugin_type, config) == [plugin_type |-> plugin_type, config |-> config]

\* The credential resolver's map: secret_ref -> secret value.
Credentials == [ref \in {"cred://k"} |-> <<"s">>]

\* Step 4: registry.resolve, plugin.authenticate and the mapping of
\* PluginError to DomainError; Ok carries the headers after the plugin.
\* The plugin sees the values that convert to a string, one per name (the
\* last one collected into its HashMap); the outbound map is rebuilt from
\* the plugin's map, keeping the entries whose name HeaderName::from_bytes
\* and whose value HeaderValue::from_str accept.  The keys of the plugin's
\* map hold no upper-case letter (HeaderName::as_str, to_lowercase), so no
\* two keys give the same header name.

StrValues(vs) == SelectSeq(vs, LAMBDA v : ToStr(v).ok)

AuthHeadersIn(headers) ==
    [n \in {k \in DOMAIN headers : StrValues(headers[k]) /= <<>>} |->
        <<StrValues(headers[n])[Len(StrValues(headers[n]))]>>]
AuthHeadersOut(m) ==
    LET kept == { k \in DOMAIN m : HeaderNameOk(k) /\ HeaderValueOk(m[k][1]) } IN
    [n \in { HeaderNameFromBytes(k).value : k \in kept } |->
        <<m[CHOOSE k \in kept : HeaderNameFromBytes(k).value = n][1]>>]

\* enum PluginError
PluginErrors == {"SecretNotFound", "AuthFailed", "Rejected", "Internal"}

\* AuthPluginRegistry::with_builtins: the plugin ids the registry resolves.
RegisteredPlugins == {"apikey", "noop"}

\* AuthPlugin::authenticate of the resolved plugin on the plugin's header
\* map: Ok with the map after the plugin, or Err with a PluginError.
PluginAuthenticate(auth, m) ==
    IF auth.plugin_type = "noop" THEN Ok(m)
    ELSE IF ~({"header", "secret_ref"} \subseteq DOMAIN auth.config)
         THEN Err("Internal")
         ELSE IF auth.config.secret_ref \notin DOMAIN Credentials
              THEN Err("SecretNotFound")
              ELSE Ok(HeaderInsert(m, ToLower(auth.config.header),
                                   ReqOpt(auth.config, "prefix")
                                       \o Credentials[auth.config.secret_ref]))

\* Mutant of MapPluginError: every plugin error becomes AuthenticationFailed.
MapPluginErrorFlat(e) ==
    CASE e = "SecretNotFound" -> "AuthenticationFailed"
      [] e = "Rejected" -> "AuthenticationFailed"
      [] e = "AuthFailed" -> "AuthenticationFailed"
      [] e = "Internal" -> "AuthenticationFailed"

\* The map_err of plugin.authenticate: PluginError -> DomainError.
MapPluginError(e) ==
    CASE e = "SecretNotFound" -> "SecretNotFound"
      [] e = "Rejected" -> "Validation"
      [] e = "AuthFailed" -> "AuthenticationFailed"
      [] e = "Internal" -> "AuthenticationFailed"

\* The PluginError of step 4, if any: of registry.resolve (Internal for an
\* unknown plugin id) or of plugin.authenticate.
AuthPluginError(auth, headers) ==
    IF auth.plugin_type \notin RegisteredPlugins THEN Some("Internal")
    ELSE LET r == PluginAuthenticate(auth, AuthHeadersIn(headers)) IN
         IF r.ok THEN None ELSE Some(r.err)

Authenticate(auth, headers) ==
    IF auth.plugin_type \notin RegisteredPlugins THEN Err("AuthenticationFailed")
    ELSE LET r == PluginAuthenticate(auth, AuthHeadersIn(headers)) IN
         IF r.ok THEN Ok(AuthHeadersOut(r.value)) ELSE Err(MapPluginError(r.err))

\* headers::set_host_header
set_host_header(headers, host, port) ==
    LET host_value == IF port = 443 \/ port = 80 THEN host
                      ELSE host \o <<":">> \o Decimal(port)
    IN  IF HeaderValueOk(host_value) THEN HeaderInsert(headers, HOST, host_value)
        ELSE headers

\* is_default_port
is_default_port(scheme, port) ==
    \/ scheme \in {"https", "wss"} /\ port = 443
    \/ scheme \in {"http", "ws"} /\ port = 80

\* The scheme name of build_upstream_url, None for Scheme::Grpc.
UrlScheme(scheme) ==
    CASE scheme = "Http" -> Some("http") [] scheme = "Https" -> Some("https")
      [] scheme = "Wss" -> Some("wss") [] scheme = "Wt" -> Some("https")
      [] OTHER -> None

\* The path of build_upstream_url: route path and suffix without a
\* doubled or missing slash between them.
UrlPath(route_path, path_suffix) ==
    LET re == route_path /= <<>> /\ route_path[Len(route_path)] = "/"
        ss == StartsWith(path_suffix, <<"/">>)
    IN  IF path_suffix = <<>> THEN route_path
        ELSE IF re /\ ss THEN route_path \o Tail(path_suffix)
        ELSE IF ~re /\ ~ss THEN route_path \o <<"/">> \o path_suffix
        ELSE route_path \o path_suffix

\* build_upstream_url; the URL is kept as its parts.
build_upstream_url(endpoint, route_path, path_suffix, query) ==
    IF ~IsSome(UrlScheme(endpoint.scheme)) THEN Err("Validation")
    ELSE LET scheme == Unwrap(UrlScheme(endpoint.scheme)) IN
         Ok([scheme |-> scheme,
             host_port |-> IF is_default_port(scheme, endpoint.port) THEN endpoint.host
                           ELSE endpoint.host \o <<":">> \o Decimal(endpoint.port),
             path |-> UrlPath(route_path, path_suffix),
             query |-> query])

\* Step 7: the URL of the request for the resolved route.
RequestUrl(endpoint, route, path_suffix, query) ==
    LET route_path == IF IsSome(route.http) THEN Unwrap(route.http).path ELSE <<"/">> IN
    build_upstream_url(endpoint, route_path,
                       StripPrefixOr(path_suffix, route_path, <<>>), query)

\* DomainError::http_status_code
http_status_code(err) ==
    CASE err = "Validation" -> 400
      [] err = "MissingTargetHost" -> 400
      [] err = "InvalidTargetHost" -> 400
      [] err = "UnknownTargetHost" -> 400
      [] err = "AuthenticationFailed" -> 401
      [] err = "NotFound" -> 404
      [] err = "Conflict" -> 409
      [] err = "PayloadTooLarge" -> 413
      [] err = "RateLimitExceeded" -> 429
      [] err = "SecretNotFound" -> 500
      [] err = "Internal" -> 500
      [] err = "DownstreamError" -> 502
      [] err = "ProtocolError" -> 502
      [] err = "UpstreamDisabled" -> 503
      [] err = "ConnectionTimeout" -> 504
      [] err = "RequestTimeout" -> 504

\* ErrorSource::as_str
SourceGateway == <<"g","a","t","e","w","a","y">>
SourceUpstream == <<"u","p","s","t","r","e","a","m">>
ErrorSourceAsStr(error_source) ==
    IF error_source = "Gateway" THEN SourceGateway ELSE SourceUpstream

\* The headers of Problem::into_response: the media type of the body.
ProblemHeaders == HeaderInsert(EmptyMap, CONTENT_TYPE, <<"p">>)

\* error_response: the problem response, x-oagw-error-source: gateway
\* inserted, retry-after inserted when the refusal carries a hint.
\* Mutant of error_response: Retry-After carries only the last digit of
\* retry_after_secs.
error_response_last_digit(err, retry_after) ==
    LET h == HeaderInsert(ProblemHeaders, X_OAGW_ERROR_SOURCE, SourceGateway) IN
    [status |-> http_status_code(err),
     headers |-> IF err = "RateLimitExceeded" /\ IsSome(retry_after)
                 THEN HeaderInsert(h, RETRY_AFTER, Decimal(Unwrap(retry_after) % 10))
                 ELSE h]

error_response(err, retry_after) ==
    LET h == HeaderInsert(ProblemHeaders, X_OAGW_ERROR_SOURCE, SourceGateway) IN
    [status |-> http_status_code(err),
     headers |-> IF err = "RateLimitExceeded" /\ IsSome(retry_after)
                 THEN HeaderInsert(h, RETRY_AFTER, Decimal(Unwrap(retry_after)))
                 ELSE h]

\* proxy_handler on Ok(response): the error source is the response's
\* extension ErrorSource, Upstream when the response carries none; the
\* headers are sanitized, copied, and x-oagw-error-source is added.
RelayResponse(status, headers, extension) ==
    LET error_source == IF IsSome(extension) THEN Unwrap(extension) ELSE "Upstream" IN
    [status |-> status,
     headers |-> HeaderAppend(sanitize_response_headers(headers),
                              X_OAGW_ERROR_SOURCE, ErrorSourceAsStr(error_source))]

\* Mutant of StageAfter: the rate limit is checked before the auth plugin runs.
StageAfterRateLimitFirst(stage) ==
    CASE stage = "Parse" -> "ResolveUpstream"
      [] stage = "ResolveUpstream" -> "ResolveRoute"
      [] stage = "ResolveRoute" -> "ValidateQuery"
      [] stage = "ValidateQuery" -> "ValidateSuffix"
      [] stage = "ValidateSuffix" -> "HeadersPrep"
      [] stage = "HeadersPrep" -> "RateLimitUpstream"
      [] stage = "RateLimitUpstream" -> "RateLimitRoute"
      [] stage = "RateLimitRoute" -> "Auth"
      [] stage = "Auth" -> "HeaderRules"
      [] stage = "HeaderRules" -> "URL"
      [] stage = "URL" -> "Dispatch"
      [] stage = "Dispatch" -> "StreamResponse"
      [] stage = "StreamResponse" -> "Done"

\* Mutant of StageAfter: the route bucket is consulted before the upstream bucket.
StageAfterRouteFirst(stage) ==
    CASE stage = "Parse" -> "ResolveUpstream"
      [] stage = "ResolveUpstream" -> "ResolveRoute"
      [] stage = "ResolveRoute" -> "ValidateQuery"
      [] stage = "ValidateQuery" -> "ValidateSuffix"
      [] stage = "ValidateSuffix" -> "HeadersPrep"
      [] stage = "HeadersPrep" -> "Auth"
      [] stage = "Auth" -> "HeaderRules"
      [] stage = "HeaderRules" -> "RateLimitRoute"
      [] stage = "RateLimitRoute" -> "RateLimitUpstream"
      [] stage = "RateLimitUpstream" -> "URL"
      [] stage = "URL" -> "Dispatch"
      [] stage = "Dispatch" -> "StreamResponse"
      [] stage = "StreamResponse" -> "Done"

\* The order of the statements of proxy_request: the stage that follows a
\* stage that succeeded.
StageAfter(stage) ==
    CASE stage = "Parse" -> "ResolveUpstream"
      [] stage = "ResolveUpstream" -> "ResolveRoute"
      [] stage = "ResolveRoute" -> "ValidateQuery"
      [] stage = "ValidateQuery" -> "ValidateSuffix"
      [] stage = "ValidateSuffix" -> "HeadersPrep"
      [] stage = "HeadersPrep" -> "Auth"
      [] stage = "Auth" -> "HeaderRules"
      [] stage = "HeaderRules" -> "RateLimitUpstream"
      [] stage = "RateLimitUpstream" -> "RateLimitRoute"
      [] stage = "RateLimitRoute" -> "URL"
      [] stage = "URL" -> "Dispatch"
      [] stage = "Dispatch" -> "StreamResponse"
      [] stage = "StreamResponse" -> "Done"

\* A stage succeeded: the request moves to the next stage.
PxAdvance(r) == [r EXCEPT !.pc = StageAfter(r.pc), !.trace = Append(@, r.pc)]

\* A stage failed (`?` or `return Err`): the request ends with the error.
\* proxy_handler turns it into the client's response with error_response.
PxFail(r, err) ==
    [r EXCEPT !.pc = "Error", !.err = Some(err), !.trace = Append(@, r.pc),
              !.response = Some(error_response(err, None))]

\* The request ends with RateLimitExceeded { retry_after_secs }.
PxRefuse(r, retry_after) ==
    [r EXCEPT !.pc = "Error", !.err = Some("RateLimitExceeded"),
              !.retry_after = retry_after, !.trace = Append(@, r.pc),
              !.response = Some(error_response("RateLimitExceeded", retry_after))]

-----------------------------------------------------------------------------
(* Proxy specification: two tasks run one request each through             *)
(* proxy_request, one stage at a time and in any interleaving, while the   *)
(* clock advances and a control-plane task deletes a route.  Pipeline      *)
(* specification: one task serves requests of every kind.                  *)

\* Requests the pipeline specification serves, and the windows the clock
\* advances.
MaxPipeRequests == 2
MaxTime == 1

cpVars == <<store, upstream_index, nextRid, fm, upstreams, nextUid, proc, last>>

P_r == <<"/", "r">>
P_rx == <<"/", "r", "/", "x">>

RL(rate, burst) == Some(MkRateLimit(rate, burst, 1))

\* Header names and values of the requests, rules and responses.
AUTHORIZATION == <<"a","u","t","h","o","r","i","z","a","t","i","o","n">>
COOKIE == <<"c","o","o","k","i","e">>
PROXY_AUTHORIZATION == <<"p","r","o","x","y","-","a","u","t","h","o","r","i","z","a","t","i","o","n">>
SET_COOKIE == <<"s","e","t","-","c","o","o","k","i","e">>
KEEP_ALIVE == <<"k","e","e","p","-","a","l","i","v","e">>
X_A == <<"x","-","a">>
X_B == <<"x","-","b">>
X_OAGW_FOO == <<"x","-","o","a","g","w","-","f","o","o">>
V_in == <<"i">>
V_in2 == <<"j">>
V_rule == <<"r">>
V_up == <<"u">>

\* A header map from a sequence of <<name, value>>, appended in order.
RECURSIVE HeadersOf(_)
HeadersOf(pairs) ==
    IF pairs = <<>> THEN EmptyMap
    ELSE HeaderAppend(HeadersOf(SubSeq(pairs, 1, Len(pairs) - 1)),
                      pairs[Len(pairs)][1], pairs[Len(pairs)][2])

\* Inbound request headers: none; the sensitive headers next to ordinary
\* and internal ones; a Connection header naming x-a.
InSensitive ==
    HeadersOf(<< <<AUTHORIZATION, V_in>>, <<COOKIE, V_in>>, <<COOKIE, V_in2>>,
                 <<PROXY_AUTHORIZATION, V_in>>, <<SET_COOKIE, V_in>>,
                 <<X_A, V_in>>, <<CONTENT_TYPE, V_in>>, <<X_OAGW_FOO, V_in>> >>)
InConnection ==
    HeadersOf(<< <<CONNECTION, <<"X","-","A",","," ","c","l","o","s","e">>>>, <<X_A, V_in>>, <<X_B, V_in>>,
                 <<KEEP_ALIVE, V_in>>, <<AUTHORIZATION, V_in>> >>)
InboundHeaderSets == {EmptyMap, InSensitive, InConnection}

\* Upstream response headers: none; an x-oagw-error-source of the
\* upstream's own; hop-by-hop and internal headers next to ordinary ones,
\* with a Connection header whose first value names x-a and whose second
\* value names x-b; a Connection header naming x-a whose value holds a byte
\* outside ASCII.
RespOwnSource ==
    HeadersOf(<< <<X_OAGW_ERROR_SOURCE, SourceGateway>>, <<X_OAGW_ERROR_SOURCE, V_up>>,
                 <<CONTENT_TYPE, V_up>>, <<X_A, V_up>> >>)
RespHopByHop ==
    HeadersOf(<< <<CONNECTION, <<"c","l","o","s","e",","," ","X","-","A">>>>,
                 <<CONNECTION, <<"x","-","b">>>>, <<X_A, V_up>>, <<X_B, V_up>>,
                 <<KEEP_ALIVE, V_up>>, <<<<"t","r","a","n","s","f","e","r","-","e","n","c","o","d","i","n","g">>, V_up>>,
                 <<X_OAGW_FOO, V_up>>, <<SET_COOKIE, V_up>>, <<SET_COOKIE, V_in>> >>)
RespConnectionNotText ==
    HeadersOf(<< <<CONNECTION, <<"x","-","a",","," ",BYTE_FF>>>>, <<X_A, V_up>>,
                 <<KEEP_ALIVE, V_up>> >>)
ResponseHeaderSets == {EmptyMap, RespOwnSource, RespHopByHop, RespConnectionNotText}

\* The upstreams, created in this order (ids from 1), of tenant tA unless
\* a tenant is named.
ProxyUpstreamReqs ==
    << [alias |-> Some(<<"a">>), endpoints |-> <<MkEndpoint("Http", H_h, 8080)>>,
        enabled |-> TRUE, rate_limit |-> RL(1, Some(2)),
        auth |-> Some(MkAuth("apikey", [header |-> <<"X", "-", "K">>,
                                         secret_ref |-> "cred://k"]))],
       [alias |-> Some(<<"b">>), endpoints |-> <<MkEndpoint("Https", H_h, 443)>>,
        enabled |-> TRUE],
       [alias |-> Some(<<"c">>), endpoints |-> <<MkEndpoint("Http", H_h, 80)>>,
        enabled |-> TRUE, rate_limit |-> RL(1, None),
        auth |-> Some(MkAuth("noop", EmptyMap))],
       [alias |-> Some(<<"d">>), endpoints |-> <<MkEndpoint("Http", H_h, 80)>>,
        enabled |-> FALSE, rate_limit |-> RL(1, None)],
       [alias |-> Some(<<"k">>), endpoints |-> <<MkEndpoint("Http", H_h, 80)>>,
        enabled |-> TRUE, rate_limit |-> RL(1, None),
        auth |-> Some(MkAuth("apikey", [header |-> <<"X", "-", "K">>,
                                         secret_ref |-> "cred://missing"]))],
       [alias |-> Some(<<"u">>), endpoints |-> <<MkEndpoint("Http", H_h, 80)>>,
        enabled |-> TRUE, rate_limit |-> RL(1, None),
        auth |-> Some(MkAuth("unknown", EmptyMap))],
       [alias |-> Some(<<"n">>), endpoints |-> <<>>,
        enabled |-> TRUE, rate_limit |-> RL(1, None)],
       [alias |-> Some(<<"g">>), endpoints |-> <<MkEndpoint("Grpc", H_h, 80)>>,
        enabled |-> TRUE, rate_limit |-> RL(1, None)],
       [alias |-> Some(<<"p">>), endpoints |-> <<MkEndpoint("Http", H_h, 80)>>,
        enabled |-> TRUE,
        headers |-> Some(MkRules(<<>>, <<>>, <<>>, "All", <<>>))],
       [alias |-> Some(<<"l">>), endpoints |-> <<MkEndpoint("Http", H_h, 80)>>,
        enabled |-> TRUE,
        headers |-> Some(MkRules(<< <<<<"S","e","t","-","C","o","o","k","i","e">>, V_rule>> >>, << <<<<"X","-","B">>, V_rule>> >>,
                                 <<<<"X","-","A">>>>, "Allowlist",
                                 <<<<"A","u","t","h","o","r","i","z","a","t","i","o","n">>, <<"C","o","o","k","i","e">>, <<"X","-","A">>, <<"x","-","b">>>>))],
       [alias |-> Some(<<"m">>), endpoints |-> <<MkEndpoint("Http", H_h, 80)>>,
        enabled |-> TRUE,
        auth |-> Some(MkAuth("apikey", [header |-> <<"A","u","t","h","o","r","i","z","a","t","i","o","n">>,
                                         secret_ref |-> "cred://k"])),
        headers |-> Some(MkRules(<< <<X_A, V_rule>> >>, << <<COOKIE, V_rule>> >>,
                                 <<>>, "None", <<COOKIE>>))],
       [tenant |-> "tB", alias |-> Some(<<"d">>),
        endpoints |-> <<MkEndpoint("Http", H_h, 80)>>, enabled |-> TRUE],
       [alias |-> Some(<<"i">>), endpoints |-> <<MkEndpoint("Http", H_h, 80)>>,
        enabled |-> TRUE, rate_limit |-> RL(1, None),
        auth |-> Some(MkAuth("apikey", [header |-> <<"X", "-", "K">>]))] >>

\* The routes of tenant tA, created in this order: (upstream id, path,
\* path_suffix_mode, rate_limit, query_allowlist).  Every route matches GET
\* and allows the query parameter v unless it names its allowlist.
ProxyRouteReqs ==
    << <<1, P_r, "Append", RL(1, None)>>, <<1, P_rx, "Disabled", None>>,
       <<2, P_r, "Append", RL(1, None)>>, <<3, P_r, "Append", RL(1, Some(2))>>,
       <<4, P_r, "Append", RL(1, None)>>, <<5, P_r, "Append", RL(1, None)>>,
       <<6, P_r, "Append", RL(1, None)>>, <<7, P_r, "Append", RL(1, None)>>,
       <<8, P_r, "Append", RL(1, None)>>, <<9, P_r, "Append", None>>,
       <<10, P_r, "Append", None>>, <<11, P_r, "Append", None>>,
       <<2, P_rx, "Append", None, {}>>, <<13, P_r, "Append", RL(1, None)>> >>

\* create_upstream for each request of a list, ids from `id` on.
RECURSIVE CreateUpstreams(_, _, _)
CreateUpstreams(U, reqs, id) ==
    IF reqs = <<>> THEN U
    ELSE CreateUpstreams(create_upstream(U, IF "tenant" \in DOMAIN Head(reqs)
                                            THEN Head(reqs).tenant ELSE "tA",
                                         id, Head(reqs)).U,
                         Tail(reqs), id + 1)

\* create_route for each request of a list, ids from `id` on.
RECURSIVE CreateRoutes(_, _, _)
CreateRoutes(SI, reqs, id) ==
    IF reqs = <<>> THEN SI
    ELSE LET q == Head(reqs)
             http == [MkHttp({"Get"}, q[2]) EXCEPT
                         !.query_allowlist = IF Len(q) >= 5 THEN q[5] ELSE {<<"v">>},
                                                     !.path_suffix_mode = q[3]]
             route == [MkRoute(id, "tA", q[1], Some(http), 0, TRUE)
                          EXCEPT !.rate_limit = q[4]]
         IN  CreateRoutes([store |-> RepoCreateStore(SI.store, route),
                           index |-> RepoCreateIndex(SI.index, route)],
                          Tail(reqs), id + 1)

\* The requests: (tenant, method, path, query keys, body readable,
\* inbound headers).
PxRequests ==
    ({"tA"} \X {M_GET, M_HEAD}
        \X {<<"/", "a", "/", "r">>, <<"/", "a", "/", "r", "/", "x">>,
            <<"/", "a", "/", "r", "/", "x", "/", "y">>, <<"/", "a", "/", "q">>,
            <<"/", "/", "a", "/", ".", "/", "q", "/", ".", ".", "/", "r">>}
        \X {<<>>, <<<<"v">>>>, <<<<"v">>, <<"z">>>>} \X BOOLEAN \X {InSensitive})
    \cup {<<"tA", M_GET, <<"/">> \o al \o P_r, <<>>, TRUE, InSensitive>> :
            al \in {<<"b">>, <<"c">>, <<"d">>, <<"k">>, <<"u">>, <<"n">>, <<"g">>,
                    <<"i">>, <<"z", "z">>}}
    \cup {<<"tB", M_GET, <<"/">> \o al \o P_r, <<>>, TRUE, EmptyMap>> :
            al \in {<<"a">>, <<"d">>}}
    \cup {<<"tA", M_GET, <<"/", "b">> \o P_rx, qs, TRUE, EmptyMap>> :
            qs \in {<<>>, <<<<"v">>>>}}
    \cup {<<"tA", M_GET, <<"/">> \o al \o P_r, <<>>, TRUE, h>> :
            al \in {<<"p">>, <<"l">>, <<"m">>, <<"c">>}, h \in InboundHeaderSets}

\* The requests of the proxy specification, all of tenant tA without query
\* and headers: to the upstream a, whose route /r/x the control plane
\* deletes; to c, whose bucket is smaller than its route's; to k, whose
\* plugin finds no secret; to g, whose URL cannot be built.
PxConcurrentRequests ==
    {<<"tA", M_GET, <<"/">> \o al \o p, <<>>, TRUE, EmptyMap>> :
        al \in {<<"a">>, <<"c">>, <<"k">>, <<"g">>}, p \in {P_r}}
    \cup {<<"tA", M_GET, <<"/", "a">> \o P_rx, <<>>, TRUE, EmptyMap>>}

\* The requests of the second task: they resolve the routes and consult
\* the buckets of the first task's requests to /a/r and /c/r.
PxRacingRequests ==
    {<<"tA", M_GET, <<"/">> \o al \o P_r, <<>>, TRUE, EmptyMap>> : al \in {<<"a">>, <<"c">>}}

\* The task that calls the control plane while requests are served, and
\* the route it deletes: the route of /r/x under the upstream a.
PxCpTasks == {1}
PxCpRouteIds == {2}

\* How the wait for the response headers ends: the timer of
\* tokio::time::timeout expires, or the send future resolves with a connect
\* error, another transport error, or a response.
DispatchOutcomes == {"timeout", "connect_error", "transport_error", "response"}
ResponseStatuses == {200, 500}

\* Seconds: the client's connect timeout and the timeout on the response
\* headers.
CONNECT_TIMEOUT == 10
REQUEST_TIMEOUT == 30

\* The seconds between two instants at which the wait is observed.
WaitStep == 15

\* Mutant of HeaderWaitExpired: the timer never expires.
HeaderWaitExpiredNever(waited) == FALSE

\* tokio::time::timeout(timeout, send_future): the timer has expired.
HeaderWaitExpired(waited) == waited >= REQUEST_TIMEOUT

\* The next instant at which the waiting request is observed: the timer's
\* expiry when it comes first.
NextInstant(waited) ==
    IF HeaderWaitExpired(waited + WaitStep) THEN REQUEST_TIMEOUT ELSE waited + WaitStep

\* Mutant of FollowsRedirect: the client follows 3xx responses.
FollowsRedirectAny3xx(status) == status >= 300 /\ status <= 399

\* reqwest::redirect::Policy::none(): no response makes the client send
\* another request.
FollowsRedirect(status) == FALSE

\* The DomainError of a failed send: map_err on reqwest's error.
DispatchError(outcome) ==
    IF outcome = "connect_error" THEN "ConnectionTimeout" ELSE "DownstreamError"

\* The responses an upstream gives: each status with each header set, and
\* a redirect.
UpstreamResponses ==
    {<<status, rh>> : status \in ResponseStatuses, rh \in ResponseHeaderSets}
        \cup {<<302, EmptyMap>>}

\* The responses of an upstream: the upstream b gives every response, the
\* other upstreams answer 200 without headers.
UpstreamResponsesOf(upstream) ==
    IF upstream.alias = <<"b">> THEN UpstreamResponses ELSE {<<200, EmptyMap>>}

InitProxy ==
    /\ upstreams = CreateUpstreams(EmptyMap, ProxyUpstreamReqs, 1)
    /\ nextUid = Len(ProxyUpstreamReqs)
    /\ LET SI == CreateRoutes([store |-> EmptyMap, index |-> EmptyMap], ProxyRouteReqs, 1) IN
       /\ store = SI.store
       /\ upstream_index = SI.index
    /\ nextRid = Len(ProxyRouteReqs)
    /\ fm = NoCall
    /\ proc = [p \in Procs |-> Idle]
    /\ last = [op |-> "none"]
    /\ InitDP

\* The clock advances by one window.
Tick ==
    /\ now < MaxTime
    /\ now' = now + 1
    /\ UNCHANGED <<cpVars, requests, pxCount, buckets, debitLog, rl>>

\* The requests a task of the proxy specification receives.
PxRequestsOf(task) == IF task = 1 THEN PxConcurrentRequests ELSE PxRacingRequests

\* The request of each task: in flight, ended, or none yet.
PxSlots == {requests[task] : task \in PxTasks}

\* The requests a task has taken.
PxTaken(task) == IF requests[task].pc = "idle" THEN 0 ELSE requests[task].id[2]

\* A request enters proxy_request; `id` names it: the task and the
\* request's number among the requests of the task.
ProxyRequestStart(q, id) ==
    [pc |-> "Parse", id |-> id, trace |-> <<>>, tenant |-> q[1], method |-> q[2],
     path |-> q[3], query |-> q[4], body_ok |-> q[5], req_headers |-> q[6],
     alias |-> <<>>, path_suffix |-> <<>>, upstream |-> None, find |-> None,
     route |-> None,
     passed |-> EmptyMap, headers |-> EmptyMap, endpoint |-> None,
     url |-> None, consulted |-> <<>>, sent |-> 0, err |-> None,
     status |-> None, resp_headers |-> EmptyMap, response |-> None,
     plugin_err |-> None, retry_after |-> None,
     waited |-> None, outcome |-> None]

\* The local state of a task's request becomes r.
PxSet(task, r) == requests' = [requests EXCEPT ![task] = r]

\* A task that serves no request takes one of the requests `reqs`.
PxStartOf(task, reqs) ==
    /\ requests[task].pc \in {"idle", "Done", "Error"}
    /\ \E q \in reqs : PxSet(task, ProxyRequestStart(q, <<task, PxTaken(task) + 1>>))
    /\ pxCount' = pxCount + 1
    /\ UNCHANGED <<cpVars, buckets, now, debitLog, rl>>

\* Each task of the proxy specification serves one of its requests.
PxStart(task) ==
    /\ requests[task].pc = "idle"
    /\ PxStartOf(task, PxRequestsOf(task))

\* The task of the pipeline specification takes requests of every kind, one
\* after the other.
PipeStart(task) ==
    /\ pxCount < MaxPipeRequests
    /\ PxStartOf(task, PxRequests)

PxUnchanged == UNCHANGED <<cpVars, pxCount, buckets, now, debitLog, rl>>

\* Alias and path suffix from the normalized path; the body is read.
PxParse(task) ==
    LET px == requests[task] IN
    /\ px.pc = "Parse"
    /\ LET a == ParseAliasSuffix(px.path)
           r == [px EXCEPT !.alias = a.alias, !.path_suffix = a.path_suffix]
       IN  PxSet(task, IF px.body_ok THEN PxAdvance(r) ELSE PxFail(r, "Validation"))
    /\ PxUnchanged

\* 1. Resolve upstream by alias.
PxResolveUpstream(task) ==
    LET px == requests[task] IN
    /\ px.pc = "ResolveUpstream"
    /\ LET res == resolve_upstream(upstreams, px.tenant, px.alias) IN
       PxSet(task, IF res.ok THEN PxAdvance([px EXCEPT !.upstream = Some(res.value)])
                   ELSE PxFail(px, res.err))
    /\ PxUnchanged

\* The end of resolve_route: the best route, or NotFound.
PxRouteResolved(px, best) ==
    IF IsSome(best) THEN PxAdvance([px EXCEPT !.route = Some(Unwrap(best)), !.find = None])
    ELSE PxFail([px EXCEPT !.find = None], "NotFound")

\* 2. Resolve route: find_matching clones the upstream's id list out of the
\* index; an empty list ends the call.
PxResolveRoute(task) ==
    LET px == requests[task] IN
    /\ px.pc = "ResolveRoute"
    /\ ~IsSome(px.find)
    /\ LET ids == IndexGet(upstream_index, Unwrap(px.upstream).id) IN
       PxSet(task, IF ids = <<>> THEN PxRouteResolved(px, FindStart.best)
                   ELSE [px EXCEPT !.find = Some([ids |-> ids, acc |-> FindStart])])
    /\ PxUnchanged

\* 2. Resolve route: one turn of the loop of find_matching, store.get(id) of
\* the next cloned id; after the last id the call returns.
PxFindVisit(task) ==
    LET px == requests[task] IN
    /\ px.pc = "ResolveRoute"
    /\ IsSome(px.find)
    /\ LET f == Unwrap(px.find)
           acc == FindVisit(store, Head(f.ids), px.tenant, parse_method(px.method),
                            px.path_suffix, f.acc)
       IN  PxSet(task, IF Tail(f.ids) = <<>> THEN PxRouteResolved(px, acc.best)
                       ELSE [px EXCEPT !.find = Some([ids |-> Tail(f.ids), acc |-> acc])])
    /\ PxUnchanged

\* 2b. Validate query parameters against the route's allowlist.
PxValidateQuery(task) ==
    LET px == requests[task] IN
    /\ px.pc = "ValidateQuery"
    /\ PxSet(task, IF QueryAllowed(Unwrap(px.route), px.query) THEN PxAdvance(px)
                   ELSE PxFail(px, "Validation"))
    /\ PxUnchanged

\* 2c. Enforce path_suffix_mode.
PxValidateSuffix(task) ==
    LET px == requests[task] IN
    /\ px.pc = "ValidateSuffix"
    /\ PxSet(task, IF SuffixAllowed(Unwrap(px.route), px.path_suffix) THEN PxAdvance(px)
                   ELSE PxFail(px, "Validation"))
    /\ PxUnchanged

\* 3. Prepare outbound headers (passthrough + strip); `passed` keeps what
\* this step let through.
PxHeadersPrep(task) ==
    LET px == requests[task] IN
    /\ px.pc = "HeadersPrep"
    /\ LET rules == Unwrap(px.upstream).headers
           mode == IF IsSome(rules) THEN Unwrap(rules).passthrough ELSE "None"
           allowlist == IF IsSome(rules) THEN Unwrap(rules).passthrough_allowlist ELSE <<>>
           out == strip_internal_headers(strip_hop_by_hop(
                      apply_passthrough(px.req_headers, mode, allowlist)))
       IN  PxSet(task, PxAdvance([px EXCEPT !.headers = out, !.passed = out]))
    /\ PxUnchanged

\* 4. Execute auth plugin.
PxAuth(task) ==
    LET px == requests[task] IN
    /\ px.pc = "Auth"
    /\ LET auth == Unwrap(px.upstream).auth
           res == IF IsSome(auth) THEN Authenticate(Unwrap(auth), px.headers)
                  ELSE Ok(px.headers)
           perr == IF IsSome(auth) THEN AuthPluginError(Unwrap(auth), px.headers)
                   ELSE None
       IN  PxSet(task, IF res.ok THEN PxAdvance([px EXCEPT !.headers = res.value])
                       ELSE PxFail([px EXCEPT !.plugin_err = perr], res.err))
    /\ PxUnchanged

\* 5. Apply header rules, take the first endpoint, set Host.
PxHeaderRules(task) ==
    LET px == requests[task] IN
    /\ px.pc = "HeaderRules"
    /\ LET eps == Unwrap(px.upstream).endpoints
           rules == Unwrap(px.upstream).headers
           ruled == IF IsSome(rules) THEN apply_header_rules(px.headers, Unwrap(rules))
                    ELSE px.headers
       IN  PxSet(task, IF eps = <<>> THEN PxFail([px EXCEPT !.headers = ruled], "DownstreamError")
                       ELSE PxAdvance([px EXCEPT
                               !.endpoint = Some(eps[1]),
                               !.headers = set_host_header(ruled, eps[1].host, eps[1].port)]))
    /\ PxUnchanged

\* The debits of a request.
PxDebits(px) == SelectSeq(debitLog, LAMBDA d : d.by = px.id)

\* The buckets after the debits of a list are given back.
RECURSIVE PxRefund(_, _)
PxRefund(B, debits) ==
    IF debits = <<>> THEN B
    ELSE LET d == Head(debits) IN
         PxRefund([B EXCEPT ![d.key].tokens = @ + d.cost], Tail(debits))

\* Mutant of PxConsume: a refusal gives back what the request has debited.
PxConsumeRefunds(task, key, limit) ==
    LET px == requests[task] IN
    IF ~IsSome(limit)
    THEN /\ PxSet(task, PxAdvance(px))
         /\ UNCHANGED <<buckets, debitLog>>
    ELSE LET cfg == Unwrap(limit)
             res == try_consume(buckets, key, cfg, now)
             r == [px EXCEPT !.consulted = Append(@, key)]
         IN  /\ \E ra \in RetryAfterHints(buckets, key, cfg, now) :
                   PxSet(task, IF res.ok THEN PxAdvance(r) ELSE PxRefuse(r, ra))
             /\ buckets' = IF res.ok THEN res.B ELSE PxRefund(res.B, PxDebits(px))
             /\ debitLog' = IF res.ok
                            THEN Append(debitLog, [key |-> key, at |-> now, cost |-> cfg.cost,
                                                   by |-> px.id])
                            ELSE debitLog

\* `if let Some(rl) = rate_limit { try_consume(key, rl)? }` of step 6.
PxConsume(task, key, limit) ==
    LET px == requests[task] IN
    IF ~IsSome(limit)
    THEN /\ PxSet(task, PxAdvance(px))
         /\ UNCHANGED <<buckets, debitLog>>
    ELSE LET cfg == Unwrap(limit)
             res == try_consume(buckets, key, cfg, now)
             r == [px EXCEPT !.consulted = Append(@, key)]
         IN  /\ \E ra \in RetryAfterHints(buckets, key, cfg, now) :
                   PxSet(task, IF res.ok THEN PxAdvance(r) ELSE PxRefuse(r, ra))
             /\ buckets' = res.B
             /\ debitLog' = IF res.ok
                            THEN Append(debitLog, [key |-> key, at |-> now, cost |-> cfg.cost,
                                                   by |-> px.id])
                            ELSE debitLog

\* 6. Check rate limit: the upstream's bucket.
PxRateLimitUpstream(task) ==
    LET px == requests[task] IN
    /\ px.pc = "RateLimitUpstream"
    /\ PxConsume(task, UpstreamKey(Unwrap(px.upstream).id), Unwrap(px.upstream).rate_limit)
    /\ UNCHANGED <<cpVars, pxCount, now, rl>>

\* 6. Check rate limit: the route's bucket.
PxRateLimitRoute(task) ==
    LET px == requests[task] IN
    /\ px.pc = "RateLimitRoute"
    /\ PxConsume(task, RouteKey(Unwrap(px.route).id), Unwrap(px.route).rate_limit)
    /\ UNCHANGED <<cpVars, pxCount, now, rl>>

\* 7. Build URL.
PxBuildUrl(task) ==
    LET px == requests[task] IN
    /\ px.pc = "URL"
    /\ LET res == RequestUrl(Unwrap(px.endpoint), Unwrap(px.route), px.path_suffix, px.query) IN
       PxSet(task, IF res.ok THEN PxAdvance([px EXCEPT !.url = Some(res.value)])
                   ELSE PxFail(px, res.err))
    /\ PxUnchanged

\* 8. Forward the request: the request is sent once and the wait for the
\* response headers begins.
PxDispatch(task) ==
    LET px == requests[task] IN
    /\ px.pc = "Dispatch"
    /\ ~IsSome(px.waited)
    /\ PxSet(task, [px EXCEPT !.sent = @ + 1, !.waited = Some(0)])
    /\ PxUnchanged

\* 8. Time passes while the send future is pending and the timer has not
\* expired.
PxAwaitHeaders(task) ==
    LET px == requests[task] IN
    /\ px.pc = "Dispatch"
    /\ IsSome(px.waited)
    /\ ~HeaderWaitExpired(Unwrap(px.waited))
    /\ PxSet(task, [px EXCEPT !.waited = Some(NextInstant(Unwrap(@)))])
    /\ PxUnchanged

\* 8. The wait ends.  tokio's Timeout polls the send future before its
\* timer, so a future that resolves at the expiry still wins; the timer
\* ends the wait only once it has expired.  A connect error comes within
\* the client's connect timeout; a resolved future drops the timer, whose
\* reading stays only with a timeout.  A response the client's redirect policy
\* follows makes the client send the request again.
PxDispatchResult(task) ==
    LET px == requests[task] IN
    /\ px.pc = "Dispatch"
    /\ IsSome(px.waited)
    /\ \E outcome \in DispatchOutcomes, resp \in UpstreamResponsesOf(Unwrap(px.upstream)) :
         LET r == [px EXCEPT !.outcome = Some(outcome),
                             !.waited = IF outcome = "timeout" THEN @ ELSE None]
             status == resp[1]
             rh == resp[2]
         IN
         /\ outcome = "timeout" => HeaderWaitExpired(Unwrap(px.waited))
         /\ outcome = "connect_error" => Unwrap(px.waited) <= CONNECT_TIMEOUT
         /\ PxSet(task, CASE outcome = "timeout" -> PxFail(r, "RequestTimeout")
                          [] outcome \in {"connect_error", "transport_error"} ->
                               PxFail(r, DispatchError(outcome))
                          [] outcome = "response" /\ FollowsRedirect(status) ->
                               [px EXCEPT !.sent = @ + 1]
                          [] OTHER -> PxAdvance([r EXCEPT !.status = Some(status),
                                                          !.resp_headers = rh]))
    /\ PxUnchanged

\* 9. Build the streaming response with the upstream's status, its
\* sanitized headers and the extension ErrorSource::Upstream; proxy_handler
\* relays it to the client.
PxStreamResponse(task) ==
    LET px == requests[task] IN
    /\ px.pc = "StreamResponse"
    /\ PxSet(task, PxAdvance([px EXCEPT !.response =
                 Some(RelayResponse(Unwrap(px.status),
                                    sanitize_response_headers(px.resp_headers),
                                    Some("Upstream")))]))
    /\ PxUnchanged

\* The steps of proxy_request of one task.
PxStep(task) ==
    \/ PxParse(task)
    \/ PxResolveUpstream(task)
    \/ PxResolveRoute(task)
    \/ PxFindVisit(task)
    \/ PxValidateQuery(task)
    \/ PxValidateSuffix(task)
    \/ PxHeadersPrep(task)
    \/ PxAuth(task)
    \/ PxHeaderRules(task)
    \/ PxRateLimitUpstream(task)
    \/ PxRateLimitRoute(task)
    \/ PxBuildUrl(task)
    \/ PxDispatch(task)
    \/ PxAwaitHeaders(task)
    \/ PxDispatchResult(task)
    \/ PxStreamResponse(task)

\* The control plane of the proxy specification: a task deletes a route of
\* tenant tA while requests are served.
PxDeleteRoute ==
    \/ \E p \in PxCpTasks : DeleteRouteGetOf(p, {"tA"}, PxCpRouteIds)
    \/ \E p \in PxCpTasks : DeleteRouteRemove(p)
    \/ \E p \in PxCpTasks : DeleteRouteRetain(p)

NextProxy ==
    \/ Tick
    \/ \E task \in PxTasks : PxStart(task)
    \/ \E task \in PxTasks : PxStep(task)
    \/ PxDeleteRoute

SpecProxy == InitProxy /\ [][NextProxy]_vars

\* Pipeline specification: one task serves requests of every kind against
\* the same configuration, and no other task runs.
PipeTasks == {1}

NextPipeline ==
    \/ \E task \in PipeTasks : PipeStart(task)
    \/ \E task \in PipeTasks : PxStep(task)

SpecPipeline == InitProxy /\ [][NextPipeline]_vars

\* The position of a step among the named stages Parse, ResolveUpstream,
\* ResolveRoute, ValidateQuery, ValidateSuffix, HeadersPrep, Auth, RateLimit,
\* URL, Dispatch, StreamResponse: both bucket checks are the stage
\* RateLimit; the header rules are not a named stage (0).
StageIndex(step) ==
    CASE step = "Parse" -> 1 [] step = "ResolveUpstream" -> 2
      [] step = "ResolveRoute" -> 3 [] step = "ValidateQuery" -> 4
      [] step = "ValidateSuffix" -> 5 [] step = "HeadersPrep" -> 6
      [] step = "Auth" -> 7 [] step = "RateLimitUpstream" -> 8
      [] step = "RateLimitRoute" -> 8 [] step = "URL" -> 9
      [] step = "Dispatch" -> 10 [] step = "StreamResponse" -> 11
      [] OTHER -> 0

IsNamedStage(step) == StageIndex(step) > 0

\* The named stages a request has passed, in the order it passed them.
StagesPassed(r) == SelectSeq(r.trace, IsNamedStage)

\* C8: a request passes the stages Parse, ResolveUpstream, ResolveRoute,
\* ValidateQuery, ValidateSuffix, HeadersPrep, Auth, RateLimit, URL, Dispatch,
\* StreamResponse in this order, none skipped and each at most once; the
\* first failure ends the request at the failing stage, and a request that
\* ended changes nothing more; before the stage RateLimit the request
\* debits no token (a bucket changes only in the stage RateLimit of a
\* request) and before the stage Dispatch no request is sent.
C8_StagesInOrder ==
    /\ [](\A px \in PxSlots : px.pc /= "idle" =>
            LET st == StagesPassed(px) IN
            /\ \A i, j \in 1..Len(px.trace) : i < j => px.trace[i] /= px.trace[j]
            /\ st /= <<>> => StageIndex(st[1]) = 1
            /\ \A i \in 1..(Len(st) - 1) :
                 \/ StageIndex(st[i + 1]) = StageIndex(st[i]) + 1
                 \/ st[i] = "RateLimitUpstream" /\ st[i + 1] = "RateLimitRoute"
            /\ IsSome(px.err) <=> px.pc = "Error"
            /\ px.pc = "Done" => Len(st) = 12 /\ IsSome(px.status)
            /\ IsNamedStage(px.pc) =>
                 StageIndex(px.pc) >= (IF st = <<>> THEN 1 ELSE StageIndex(st[Len(st)]))
            /\ (\A i \in 1..Len(st) : StageIndex(st[i]) < 8) =>
                 PxDebits(px) = <<>> /\ px.consulted = <<>>
            /\ (px.pc /= "Dispatch" /\ \A i \in 1..Len(st) : StageIndex(st[i]) < 10) =>
                 px.sent = 0
            /\ px.sent <= 1)
    /\ [][/\ \A task \in PxTasks :
               requests[task].pc \in {"Error", "Done"} => requests'[task] = requests[task]
          /\ (buckets' /= buckets \/ debitLog' /= debitLog) =>
               \E task \in PxTasks :
                  /\ StageIndex(requests[task].pc) = 8
                  /\ requests'[task] /= requests[task]]_vars

\* C8 witness: after an earlier request was served, a request failed in the
\* auth plugin of an upstream that has a rate limit: it passed exactly the
\* stages up to Auth, debited nothing and sent nothing.
C8_Witness ==
    \E px \in PxSlots :
      /\ px.pc = "Error"
      /\ px.err = Some("SecretNotFound")
      /\ StagesPassed(px) = <<"Parse", "ResolveUpstream", "ResolveRoute", "ValidateQuery",
                              "ValidateSuffix", "HeadersPrep", "Auth">>
      /\ IsSome(Unwrap(px.upstream).rate_limit)
      /\ buckets /= EmptyMap
      /\ PxDebits(px) = <<>>
      /\ px.sent = 0

\* C9: the upstream's bucket (key upstream:<id>) is consulted before the
\* route's bucket (key route:<id>); the route's bucket is consulted only
\* when the upstream's admission succeeded or the upstream has no rate
\* limit; when the upstream's bucket refuses, the request fails with
\* RateLimitExceeded and the route's bucket is unchanged.
C9_UpstreamBucketBeforeRouteBucket ==
    /\ [](\A px \in PxSlots :
          (px.pc /= "idle" /\ IsSome(px.upstream) /\ IsSome(px.route)) =>
            LET up == Unwrap(px.upstream)
                uk == UpstreamKey(up.id)
                rk == RouteKey(Unwrap(px.route).id)
                admitted(key) == \E i \in 1..Len(PxDebits(px)) : PxDebits(px)[i].key = key
            IN  /\ px.consulted \in {<<>>, <<uk>>, <<rk>>, <<uk, rk>>}
                /\ px.consulted = <<uk, rk>> => admitted(uk)
                /\ px.consulted = <<rk>> => ~IsSome(up.rate_limit)
                /\ IsSome(up.rate_limit) /\ px.consulted = <<>> =>
                     StageIndex(px.pc) <= 8 /\ "RateLimitUpstream" \notin SeqToSet(px.trace)
                /\ (px.consulted = <<uk>> /\ ~admitted(uk)) =>
                     /\ px.pc = "Error"
                     /\ px.err = Some("RateLimitExceeded")
                     /\ PxDebits(px) = <<>>)
    /\ [][\A task \in PxTasks :
            (requests[task].pc = "RateLimitUpstream" /\ requests'[task].pc = "Error") =>
               LET rk == RouteKey(Unwrap(requests[task].route).id) IN
               /\ BucketGet(buckets', rk) = BucketGet(buckets, rk)
               /\ buckets' = buckets]_vars

\* C9 witness: the upstream's bucket refused a request whose route has a
\* bucket with tokens left; the route's bucket was not consulted.
C9_Witness ==
    \E px \in PxSlots :
      /\ px.pc = "Error"
      /\ px.err = Some("RateLimitExceeded")
      /\ px.consulted = <<UpstreamKey(Unwrap(px.upstream).id)>>
      /\ IsSome(Unwrap(px.route).rate_limit)
      /\ RouteKey(Unwrap(px.route).id) \in DOMAIN buckets
      /\ buckets[RouteKey(Unwrap(px.route).id)].tokens >= 1

-----------------------------------------------------------------------------
(* Alias specification: concurrent create_upstream and update_upstream     *)
(* calls of two tenants.  update_upstream reads the row, patches its copy  *)
(* and writes it back in a second repository call.                         *)

\* Upstreams created in the alias specification.
AliasMaxUpstreams == 3

A_bad == <<"a", "/">>

\* An alias with an uppercase letter.
A_upper == <<"A">>

\* CreateUpstreamRequest values: an explicit alias, or the alias generated
\* from the endpoint ("h").
AliasCreateReqs ==
    {[alias |-> al, endpoints |-> <<MkEndpoint("Https", H_h, 443)>>, enabled |-> TRUE] :
        al \in {Some(A_a), None, Some(A_upper)}}

\* UpdateUpstreamRequest values.
AliasUpdateReqs ==
    {[alias |-> al, enabled |-> None] : al \in {Some(A_a), Some(H_h), Some(A_bad)}}

\* The tasks that call the control plane in the alias specification.
AliasTasks == {1, 2}

\* What the caller of a control-plane call sees of its result: the status
\* of the REST handler's response (ok_status on success, the Problem's
\* status on failure) and the kind of the SDK facade's result.
RestStatus(ok_status, res) == IF res.ok THEN ok_status ELSE http_status_code(res.err)

SdkResult(res) == IF res.ok THEN "Ok" ELSE domain_err_to_sdk(res.err)

\* The record of a finished control-plane call.
AliasLast(op, t, res, ok_status) ==
    [op |-> op, t |-> t, res |-> res, rest |-> RestStatus(ok_status, res),
     sdk |-> SdkResult(res)]

\* create_upstream
AliasCreateUpstream(p) ==
    /\ proc[p] = Idle
    /\ nextUid < AliasMaxUpstreams
    /\ \E t \in Tenants, req \in AliasCreateReqs :
         LET r == create_upstream(upstreams, t, nextUid + 1, req) IN
         /\ upstreams' = r.U
         /\ nextUid' = IF r.res.ok THEN nextUid + 1 ELSE nextUid
         /\ last' = AliasLast("create_upstream", t, r.res, 201)
    /\ UNCHANGED <<store, upstream_index, nextRid, fm, proc, dpVars>>

\* update_upstream, first step: upstreams.get_by_id (NotFound ends the
\* call), the partial update applied to the copy (Validation ends the call).
AliasUpdateReadOf(p, reqs) ==
    /\ proc[p] = Idle
    /\ \E t \in Tenants, id \in 1..nextUid, req \in reqs :
         LET existing == upstream_get_by_id(upstreams, t, id)
             patched == ApplyUpstreamPatch(Unwrap(existing), req)
         IN  IF ~IsSome(existing)
             THEN /\ last' = AliasLast("update_upstream", t, Err("NotFound"), 200)
                  /\ UNCHANGED proc
             ELSE IF ~patched.ok
             THEN /\ last' = AliasLast("update_upstream", t, patched, 200)
                  /\ UNCHANGED proc
             ELSE /\ SetProc(p, [pc |-> "update_write", row |-> patched.value])
                  /\ UNCHANGED last
    /\ UNCHANGED <<store, upstream_index, nextRid, fm, upstreams, nextUid, dpVars>>

AliasUpdateRead(p) == AliasUpdateReadOf(p, AliasUpdateReqs)

\* update_upstream, second step: upstreams.update(existing).
AliasUpdateWrite(p) ==
    /\ proc[p].pc = "update_write"
    /\ LET r == MapRepoErr(UpstreamRepoUpdate(upstreams, proc[p].row)) IN
       /\ upstreams' = r.U
       /\ last' = AliasLast("update_upstream", proc[p].row.tenant_id, r.res, 200)
    /\ SetProc(p, Idle)
    /\ UNCHANGED <<store, upstream_index, nextRid, fm, nextUid, dpVars>>

InitAlias == InitRoutes

NextAlias ==
    \E p \in AliasTasks :
        \/ AliasCreateUpstream(p)
        \/ AliasUpdateRead(p)
        \/ AliasUpdateWrite(p)

SpecAlias == InitAlias /\ [][NextAlias]_vars

\* C5: within a tenant no two stored upstreams hold the same alias, in
\* every state reached by interleaved create_upstream and update_upstream
\* calls.
C5_AliasUniquePerTenant ==
    \A i, j \in DOMAIN upstreams :
        (i /= j /\ upstreams[i].tenant_id = upstreams[j].tenant_id)
            => upstreams[i].alias /= upstreams[j].alias

\* C5 witness: an update_upstream was refused with Conflict, while two
\* upstreams of different tenants hold the same alias.
C5_Witness ==
    /\ last.op = "update_upstream"
    /\ last.res = Err("Conflict")
    /\ \E i, j \in DOMAIN upstreams :
         /\ upstreams[i].tenant_id /= upstreams[j].tenant_id
         /\ upstreams[i].alias = upstreams[j].alias

-----------------------------------------------------------------------------
(* Rate limiter specification: concurrent try_consume calls.  A call loads *)
(* the key's cell, computes refill and debit on its copy and publishes the *)
(* result with a compare-and-swap, retrying when the cell has changed.     *)

\* try_consume calls started in the rate limiter specification.
MaxRlCalls == 3

\* The keys and their configurations.
RlKeys == {UpstreamKey(1), RouteKey(1)}
RlConfig(key) ==
    IF key = UpstreamKey(1) THEN MkRateLimit(1, Some(2), 1) ELSE MkRateLimit(1, Some(3), 2)

\* Mutant of CasOk: the result is stored without comparing.
CasAlways(current, seen) == TRUE

\* compare-and-swap succeeds when the cell is the one that was loaded.
CasOk(current, seen) == current = seen

\* try_consume: the cell and the clock are read.
RlLoad(p) ==
    /\ \/ rl[p] = Idle /\ pxCount < MaxRlCalls /\ pxCount' = pxCount + 1
       \/ rl[p].pc = "retry" /\ UNCHANGED pxCount
    /\ \E key \in RlKeys :
         /\ rl[p].pc = "retry" => key = rl[p].key
         /\ rl' = [rl EXCEPT ![p] = [pc |-> "cas", key |-> key,
                                     seen |-> BucketGet(buckets, key), at |-> now]]
    /\ UNCHANGED <<cpVars, requests, buckets, now, debitLog>>

\* try_consume: refill and debit on the loaded cell, published when the
\* cell is unchanged; otherwise the call starts over.
RlCas(p) ==
    /\ rl[p].pc = "cas"
    /\ LET key == rl[p].key
           cfg == RlConfig(key)
           a == Admit(BucketCell(rl[p].seen, cfg, rl[p].at), cfg, rl[p].at)
       IN  IF ~CasOk(BucketGet(buckets, key), rl[p].seen)
           THEN /\ rl' = [rl EXCEPT ![p] = [pc |-> "retry", key |-> key]]
                /\ UNCHANGED <<buckets, debitLog>>
           ELSE /\ rl' = [rl EXCEPT ![p] = Idle]
                /\ buckets' = Publish(buckets, key, a)
                /\ debitLog' = IF a.ok
                               THEN Append(debitLog, [key |-> key, at |-> rl[p].at,
                                                      cost |-> cfg.cost])
                               ELSE debitLog
    /\ last' = IF CasOk(BucketGet(buckets, rl[p].key), rl[p].seen)
               THEN [op |-> "try_consume", key |-> rl[p].key,
                     ok |-> Admit(BucketCell(rl[p].seen, RlConfig(rl[p].key), rl[p].at),
                                  RlConfig(rl[p].key), rl[p].at).ok,
                     before |-> buckets]
               ELSE last
    /\ UNCHANGED <<store, upstream_index, nextRid, fm, upstreams, nextUid, proc,
                   requests, pxCount, now>>

InitRL == InitRoutes

NextRL == Tick \/ \E p \in Procs : RlLoad(p) \/ RlCas(p)

SpecRL == InitRL /\ [][NextRL]_vars

\* The tokens debited from a key by the admissions of a log at times s..e.
RECURSIVE DebitedIn(_, _, _, _)
DebitedIn(log, key, s, e) ==
    IF log = <<>> THEN 0
    ELSE (IF Head(log).key = key /\ s <= Head(log).at /\ Head(log).at <= e
          THEN Head(log).cost ELSE 0) + DebitedIn(Tail(log), key, s, e)

\* The admissions of a log run one at a time from the buckets B: whether
\* each of them is admitted, and the buckets they leave.
RECURSIVE SerialRun(_, _)
SerialRun(log, B) ==
    IF log = <<>> THEN [ok |-> TRUE, B |-> B]
    ELSE LET r == try_consume(B, Head(log).key, RlConfig(Head(log).key), Head(log).at) IN
         IF r.ok THEN SerialRun(Tail(log), r.B) ELSE [ok |-> FALSE, B |-> B]

\* C10: for every key and every interval of time, the tokens debited in
\* the interval are at most the bucket's capacity (the most it can hold at
\* the start) plus the tokens refilled during the interval; and the
\* admissions behave as if run one at a time: run in the order they were
\* published, each is admitted and they leave the buckets of this state.
C10_DebitsBoundedAndSerial ==
    /\ \A key \in RlKeys : \A s \in 0..now : \A e \in s..now :
         DebitedIn(debitLog, key, s, e)
             <= BucketCapacity(RlConfig(key)) + RlConfig(key).rate * (e - s)
    /\ SerialRun(debitLog, EmptyMap) = [ok |-> TRUE, B |-> buckets]

\* C10 witness: two calls loaded the same cell of a key with one token
\* left; the first was admitted, the second found the cell changed.
C10_Witness ==
    \E p \in Procs, key \in RlKeys :
        /\ rl[p].pc = "retry"
        /\ rl[p].key = key
        /\ key \in DOMAIN buckets
        /\ buckets[key].tokens = 0
        /\ DebitedIn(debitLog, key, 0, now) = BucketCapacity(RlConfig(key))

\* C11: an admission refused for lack of tokens leaves the bucket table,
\* and so the key's token count, as it was; the key's next admission is
\* therefore accepted at every time at which it would have been accepted
\* without the refused request.
C11_RefusalLeavesBucket ==
    (last.op = "try_consume" /\ ~last.ok) =>
        /\ buckets = last.before
        /\ BucketGet(buckets, last.key) = BucketGet(last.before, last.key)
        /\ \A t \in now..(MaxTime + 1) :
             LET cfg == RlConfig(last.key) IN
             Admit(BucketCell(BucketGet(buckets, last.key), cfg, t), cfg, t).ok
               = Admit(BucketCell(BucketGet(last.before, last.key), cfg, t), cfg, t).ok

\* C11 witness: a request of cost 2 was refused by a bucket that holds one
\* token, and the bucket still holds it.
C11_Witness ==
    /\ last.op = "try_consume"
    /\ ~last.ok
    /\ last.key \in DOMAIN buckets
    /\ buckets[last.key].tokens = 1
    /\ RlConfig(last.key).cost = 2

\* The rate limit configured for a bucket key of the proxy specification.
KeyLimit(key) ==
    IF key[1] = "upstream" THEN Unwrap(upstreams[key[2]].rate_limit)
    ELSE Unwrap(store[key[2]].rate_limit)

\* The accepted admissions of a log taken one after the other from the
\* buckets B: whether each is accepted, and the buckets they leave.
RECURSIVE PxReplay(_, _)
PxReplay(log, B) ==
    IF log = <<>> THEN [ok |-> TRUE, B |-> B]
    ELSE LET r == try_consume(B, Head(log).key, KeyLimit(Head(log).key), Head(log).at) IN
         IF r.ok THEN PxReplay(Tail(log), r.B) ELSE [ok |-> FALSE, B |-> B]

\* C12: an accepted admission stays debited whatever happens later in the
\* request (refusal by the route's bucket, Validation at URL building,
\* timeout, transport failure): the buckets are always exactly what the
\* accepted admissions leave, no step takes an admission back, and a step
\* that ends a request with an error other than at its own admission
\* changes no bucket.
C12_AcceptedDebitStays ==
    /\ [](PxReplay(debitLog, EmptyMap) = [ok |-> TRUE, B |-> buckets])
    /\ [][/\ Len(debitLog') >= Len(debitLog)
          /\ SubSeq(debitLog', 1, Len(debitLog)) = debitLog
          /\ \A task \in PxTasks :
               (requests[task].pc \notin {"idle", "Error"} /\ requests'[task].pc = "Error") =>
                  buckets' = buckets]_vars

\* C12 witness: the upstream's bucket accepted the request and the route's
\* bucket then refused it; the upstream's token stays debited.
C12_Witness ==
    \E px \in PxSlots :
      /\ px.pc = "Error"
      /\ px.err = Some("RateLimitExceeded")
      /\ Len(px.consulted) = 2
      /\ Len(PxDebits(px)) = 1
      /\ PxDebits(px)[1].key = px.consulted[1]
      /\ buckets[px.consulted[1]].tokens < BucketCapacity(KeyLimit(px.consulted[1]))

\* A request has ended; the client's response of an ended request.
PxEnded(px) == px.pc \in {"Error", "Done"}
PxResponse(px) == Unwrap(px.response)

\* C13: every response to a proxied request carries exactly one
\* x-oagw-error-source header: gateway on a response made from a gateway
\* error at any stage (with that error's status), upstream on a relayed
\* upstream response of any status, also when the upstream's response had
\* x-oagw-error-source headers of its own.
C13_ExactlyOneErrorSource ==
    \A px \in PxSlots :
      /\ PxEnded(px) => /\ IsSome(px.response)
                    /\ X_OAGW_ERROR_SOURCE \in DOMAIN PxResponse(px).headers
                    /\ Len(PxResponse(px).headers[X_OAGW_ERROR_SOURCE]) = 1
      /\ px.pc = "Error" =>
            /\ PxResponse(px).headers[X_OAGW_ERROR_SOURCE] = <<SourceGateway>>
            /\ PxResponse(px).status = http_status_code(Unwrap(px.err))
      /\ px.pc = "Done" =>
            /\ PxResponse(px).headers[X_OAGW_ERROR_SOURCE] = <<SourceUpstream>>
            /\ PxResponse(px).status = Unwrap(px.status)

\* A relayed 500 whose upstream sent x-oagw-error-source: gateway itself.
C13_Witness ==
    \E px \in PxSlots :
      /\ px.pc = "Done"
      /\ px.status = Some(500)
      /\ X_OAGW_ERROR_SOURCE \in DOMAIN px.resp_headers
      /\ px.resp_headers[X_OAGW_ERROR_SOURCE][1] = SourceGateway
      /\ PxResponse(px).headers[X_OAGW_ERROR_SOURCE] = <<SourceUpstream>>

\* The request failed at the stage.
PxFailedAt(px, stage) == px.pc = "Error" /\ px.trace[Len(px.trace)] = stage

\* The request has gone through the stage with success.
PxPassed(px, stage) ==
    /\ px.pc /= "idle"
    /\ \E i \in 1..Len(px.trace) : px.trace[i] = stage
    /\ ~PxFailedAt(px, stage)

\* The names the upstream's configuration introduces on its own: the
\* header of its apikey plugin and the names of its set and add rules.
IntroducedNames(u) ==
    (IF IsSome(u.auth) /\ Unwrap(u.auth).plugin_type = "apikey"
     THEN {ToLower(Unwrap(u.auth).config.header)} ELSE {})
    \cup (IF IsSome(u.headers)
          THEN LET r == Unwrap(u.headers) IN
               { ToLower(r.set[i][1]) : i \in 1..Len(r.set) }
                   \cup { ToLower(r.add[i][1]) : i \in 1..Len(r.add) }
          ELSE {})

\* C14: after request-header preparation the outbound headers hold none of
\* authorization, cookie, proxy-authorization, set-cookie, whatever the
\* passthrough mode and allowlist; in the request sent to the upstream such
\* a header is there only if the auth plugin or a set/add rule introduced
\* it, and none of its values is a value the inbound request carried.
C14_SensitiveNotForwarded ==
    \A px \in PxSlots :
      /\ PxPassed(px, "HeadersPrep") => (DOMAIN px.passed) \cap STRIPPED_HEADERS = {}
      /\ PxPassed(px, "HeaderRules") =>
            \A n \in (DOMAIN px.headers) \cap STRIPPED_HEADERS :
                /\ n \in IntroducedNames(Unwrap(px.upstream))
                /\ n \in DOMAIN px.req_headers =>
                      SeqToSet(px.headers[n]) \cap SeqToSet(px.req_headers[n]) = {}

\* A request with Authorization and Cookie, both on the upstream's
\* allowlist, is sent without them, and with the Set-Cookie of a set rule.
C14_Witness ==
    \E px \in PxSlots :
      /\ px.pc /= "idle" /\ px.sent = 1
      /\ IsSome(Unwrap(px.upstream).headers)
      /\ Unwrap(Unwrap(px.upstream).headers).passthrough = "Allowlist"
      /\ {AUTHORIZATION, COOKIE} \subseteq DOMAIN px.req_headers
      /\ X_A \in DOMAIN px.passed
      /\ AUTHORIZATION \notin DOMAIN px.headers
      /\ COOKIE \notin DOMAIN px.headers
      /\ px.headers[SET_COOKIE] = <<V_rule>>

\* What the sanitization leaves of the upstream's response at the client:
\* no hop-by-hop name, no x-oagw-* name but the one x-oagw-error-source.
SanitizedAtClient(px) ==
    /\ (DOMAIN PxResponse(px).headers) \cap HOP_BY_HOP_HEADERS = {}
    /\ \A n \in DOMAIN PxResponse(px).headers :
          StartsWith(n, X_OAGW_PREFIX) =>
              n = X_OAGW_ERROR_SOURCE /\ Len(PxResponse(px).headers[n]) = 1

\* An upstream response header arrives at the client with all its values.
ForwardedToClient(px, n) ==
    n \in DOMAIN PxResponse(px).headers /\ PxResponse(px).headers[n] = px.resp_headers[n]

\* The upstream response headers that are neither hop-by-hop nor x-oagw-*.
OtherResponseHeaders(px) ==
    { n \in DOMAIN px.resp_headers :
        n \notin HOP_BY_HOP_HEADERS /\ ~StartsWith(n, X_OAGW_PREFIX) }

\* C15 as stated: the relayed response holds no hop-by-hop header and no
\* x-oagw-* header except the gateway's single x-oagw-error-source, and
\* every other upstream response header is forwarded.
C15_EveryOtherHeaderForwarded ==
    \A px \in PxSlots :
      px.pc = "Done" =>
          /\ SanitizedAtClient(px)
          /\ \A n \in OtherResponseHeaders(px) : ForwardedToClient(px, n)

\* The name n stands at position c of the text v as a whole token: the
\* characters from c on are n in any letter case, and only blanks lie
\* between them and the nearest comma, or the end of v, on either side.
TokenAt(v, n, c) ==
    LET d == c + Len(n) - 1 IN
    /\ \A k \in 1..Len(n) : AsciiLowerChar(v[c + k - 1]) = n[k]
    /\ \A i \in 1..(c - 1) :
          (\A j \in i..(c - 1) : v[j] /= ",") => v[i] \in {" ", "\t"}
    /\ \A i \in (d + 1)..Len(v) :
          (\A j \in (d + 1)..i : v[j] /= ",") => v[i] \in {" ", "\t"}

\* The first Connection value of the header map h is text (visible ASCII
\* and tabs) and the header name n is one of its comma-separated tokens.
NamedByFirstConnection(h, n) ==
    /\ CONNECTION \in DOMAIN h
    /\ LET v == h[CONNECTION][1] IN
       /\ \A i \in 1..Len(v) : v[i] \in AsciiVisible \cup {"\t"}
       /\ \E c \in 1..(Len(v) - Len(n) + 1) : TokenAt(v, n, c)

\* The header name n is a token of some Connection value of h, whether or
\* not the gateway reads that value.
NamedBySomeConnection(h, n) ==
    /\ CONNECTION \in DOMAIN h
    /\ \E k \in 1..Len(h[CONNECTION]) :
          LET v == h[CONNECTION][k] IN
          \E c \in 1..(Len(v) - Len(n) + 1) : TokenAt(v, n, c)

\* C15, amended: the relayed response holds no hop-by-hop header and no
\* x-oagw-* header except the gateway's single x-oagw-error-source; a
\* header named by a token of the first value of the upstream's Connection
\* header is dropped as well when that value is text; every other upstream
\* response header is forwarded with all its values, a header named only
\* by a later Connection value or by a value that is not text included.
C15_SanitizedResponse ==
    \A px \in PxSlots :
      px.pc = "Done" =>
          /\ SanitizedAtClient(px)
          /\ \A n \in OtherResponseHeaders(px) :
                IF NamedByFirstConnection(px.resp_headers, n)
                THEN n \notin DOMAIN PxResponse(px).headers
                ELSE ForwardedToClient(px, n)

\* A relayed response whose upstream sent Connection: close, X-A and a
\* second Connection: x-b next to x-a, x-b, keep-alive and two set-cookie
\* values: x-a is dropped, x-b arrives although a Connection value names
\* it.
C15_Witness ==
    \E px \in PxSlots :
      /\ px.pc = "Done"
      /\ NamedByFirstConnection(px.resp_headers, X_A)
      /\ NamedBySomeConnection(px.resp_headers, X_B)
      /\ ~NamedByFirstConnection(px.resp_headers, X_B)
      /\ {X_A, X_B, KEEP_ALIVE, X_OAGW_FOO, SET_COOKIE} \subseteq DOMAIN px.resp_headers
      /\ X_A \notin DOMAIN PxResponse(px).headers
      /\ PxResponse(px).headers[X_B] = <<V_up>>
      /\ Len(PxResponse(px).headers[SET_COOKIE]) = 2

\* A relayed response whose upstream sent a Connection value that is not
\* text and names x-a: x-a arrives at the client.
ConnectionNotTextRelayed ==
    \E px \in PxSlots :
      /\ px.pc = "Done"
      /\ px.resp_headers = RespConnectionNotText
      /\ ~NamedByFirstConnection(px.resp_headers, X_A)
      /\ NamedBySomeConnection(px.resp_headers, X_A)
      /\ PxResponse(px).headers[X_A] = <<V_up>>

\* The wider reading: a header named by any Connection value is dropped.
EveryConnectionNamedDropped ==
    \A px \in PxSlots :
      px.pc = "Done" =>
          \A n \in OtherResponseHeaders(px) :
              NamedBySomeConnection(px.resp_headers, n)
                  => n \notin DOMAIN PxResponse(px).headers

\* The upstreams of a tenant that hold an alias.
TenantAlias(t, alias) ==
    { id \in DOMAIN upstreams : upstreams[id].tenant_id = t /\ upstreams[id].alias = alias }

\* C16: resolve_upstream(t, alias) returns an upstream only if it is an
\* enabled upstream of tenant t with that alias; a disabled upstream of t
\* with that alias gives UpstreamDisabled (503); no upstream of t with that
\* alias gives NotFound (404), whatever other tenants hold.
C16_ResolveUpstream ==
    \A px \in PxSlots :
      /\ PxPassed(px, "ResolveUpstream") =>
            LET u == Unwrap(px.upstream) IN
            /\ IsSome(px.upstream)
            /\ u.id \in TenantAlias(px.tenant, px.alias)
            /\ upstreams[u.id] = u
            /\ u.enabled
      /\ PxFailedAt(px, "ResolveUpstream") =>
            /\ px.err \in {Some("UpstreamDisabled"), Some("NotFound")}
            /\ px.err = Some("UpstreamDisabled") <=>
                  \E id \in TenantAlias(px.tenant, px.alias) : ~upstreams[id].enabled
            /\ px.err = Some("NotFound") <=> TenantAlias(px.tenant, px.alias) = {}
            /\ px.err = Some("UpstreamDisabled") => PxResponse(px).status = 503
            /\ px.err = Some("NotFound") => PxResponse(px).status = 404

\* Alias d is disabled in tenant tA and enabled in tenant tB: tA's request
\* is refused with UpstreamDisabled.
C16_Witness ==
    \E px \in PxSlots :
      /\ PxFailedAt(px, "ResolveUpstream")
      /\ px.tenant = "tA"
      /\ px.err = Some("UpstreamDisabled")
      /\ \E id \in TenantAlias("tB", px.alias) : upstreams[id].enabled

\* C17: create_route by tenant t with an upstream_id that does not exist
\* or belongs to another tenant fails with Validation and leaves the
\* primary store and the upstream index exactly as they were; with an
\* upstream of t it succeeds.
C17_CreateRouteForeignUpstream ==
    last.op = "create_route" =>
        LET owned == /\ last.u \in DOMAIN last.before.upstreams
                     /\ last.before.upstreams[last.u].tenant_id = last.t
        IN  /\ last.res.ok <=> owned
            /\ ~owned => /\ last.res = Err("Validation")
                          /\ store = last.before.store
                          /\ upstream_index = last.before.index

\* Refused for an upstream of the other tenant, with routes in the store.
C17_Witness ==
    /\ last.op = "create_route"
    /\ last.res = Err("Validation")
    /\ last.u \in DOMAIN upstreams
    /\ upstreams[last.u].tenant_id /= last.t
    /\ store /= EmptyMap

\* C18: delete(t, id) on a route of another tenant returns NotFound, as it
\* does for an id that is not stored, and the route stays as it was for
\* its owner: get_by_id returns it, list_by_upstream lists it, and
\* find_matching on its path returns the route it returned before.
C18_ForeignDeleteNotFound ==
    (last.op = "delete" /\ get_by_id(last.before.store, last.t, last.id) = None) =>
        LET B == last.before IN
        /\ last.res = Err("NotFound")
        /\ last.id \in DOMAIN B.store =>
              LET r == B.store[last.id]
                  o == r.tenant_id
                  path == Unwrap(r.http).path
              IN  /\ get_by_id(store, o, last.id) = Some(r)
                  /\ r \in SeqToSet(list_by_upstream(store, upstream_index, o,
                                                     r.upstream_id, DefaultTop, 0))
                  /\ IsSome(find_matching(store, upstream_index, o, r.upstream_id,
                                          M_GET, path))
                  /\ find_matching(store, upstream_index, o, r.upstream_id, M_GET, path)
                        = find_matching(B.store, B.index, o, r.upstream_id, M_GET, path)

\* A refused delete of a route that the other tenant owns.
C18_Witness ==
    /\ last.op = "delete"
    /\ last.res = Err("NotFound")
    /\ last.id \in DOMAIN store
    /\ store[last.id].tenant_id /= last.t
    /\ Cardinality(DOMAIN store) >= 2

\* The characters of [a-z0-9._:-].
SpecAliasChars == LowerChars \cup DigitChars \cup {".", "_", ":", "-"}

\* C19: every stored upstream has an alias that is non-empty, at most 253
\* characters long and made only of characters in [a-z0-9._:-], after any
\* sequence of create_upstream and update_upstream calls.
C19_StoredAliasCharset ==
    \A id \in DOMAIN upstreams :
        LET alias == upstreams[id].alias IN
        /\ alias /= <<>>
        /\ Len(alias) <= MAX_ALIAS_LENGTH
        /\ \A i \in 1..Len(alias) : alias[i] \in SpecAliasChars

\* C20: for a request matched to a route with an http match block, query
\* validation passes exactly when every query key is in the route's
\* query_allowlist: a request without query parameters passes, and an empty
\* allowlist refuses every request that has one, with Validation.
C20_QueryAllowlist ==
    \A px \in PxSlots :
      (PxPassed(px, "ValidateQuery") \/ PxFailedAt(px, "ValidateQuery")) =>
          LET http == Unwrap(px.route).http
              allow == Unwrap(http).query_allowlist
          IN  IsSome(http) =>
                /\ PxPassed(px, "ValidateQuery") <=>
                      \A i \in 1..Len(px.query) : px.query[i] \in allow
                /\ PxFailedAt(px, "ValidateQuery") =>
                      px.err = Some("Validation") /\ PxResponse(px).status = 400
                /\ px.query = <<>> => PxPassed(px, "ValidateQuery")
                /\ (allow = {} /\ px.query /= <<>>) => PxFailedAt(px, "ValidateQuery")

\* A route with an empty allowlist refuses a request with one parameter.
C20_Witness ==
    \E px \in PxSlots :
      /\ PxFailedAt(px, "ValidateQuery")
      /\ Unwrap(Unwrap(px.route).http).query_allowlist = {}
      /\ Len(px.query) = 1

\* C21: when the matched route has path_suffix_mode = disabled, suffix
\* validation passes exactly when the path suffix equals the route path;
\* extra characters after the route path give Validation (400), and the
\* request is not sent to the upstream.
C21_SuffixDisabledExact ==
    \A px \in PxSlots :
      (PxPassed(px, "ValidateSuffix") \/ PxFailedAt(px, "ValidateSuffix")) =>
          LET http == Unwrap(px.route).http IN
          (IsSome(http) /\ Unwrap(http).path_suffix_mode = "Disabled") =>
              /\ PxPassed(px, "ValidateSuffix") <=> px.path_suffix = Unwrap(http).path
              /\ PxFailedAt(px, "ValidateSuffix") =>
                    /\ px.err = Some("Validation")
                    /\ PxResponse(px).status = 400
                    /\ px.sent = 0

\* /r/x/y on the route /r/x with path_suffix_mode disabled is refused.
C21_Witness ==
    \E px \in PxSlots :
      /\ PxFailedAt(px, "ValidateSuffix")
      /\ Unwrap(Unwrap(px.route).http).path_suffix_mode = "Disabled"
      /\ StartsWith(px.path_suffix, Unwrap(Unwrap(px.route).http).path)
      /\ Len(px.path_suffix) > Len(Unwrap(Unwrap(px.route).http).path)

\* The DomainError the claim names for each PluginError.
AuthErrorFor(e) ==
    CASE e = "SecretNotFound" -> "SecretNotFound"
      [] e = "Rejected" -> "Validation"
      [] e \in {"AuthFailed", "Internal"} -> "AuthenticationFailed"

\* C22: a failure of the auth stage happens only for an upstream with an
\* auth config and ends the request before any rate-limit admission and
\* before dispatch, with the error kind fixed by the plugin error:
\* SecretNotFound gives SecretNotFound, Rejected gives Validation,
\* AuthFailed and Internal give AuthenticationFailed, and a plugin_type
\* the registry does not know gives AuthenticationFailed.
C22_AuthFailureAborts ==
    \A px \in PxSlots :
      /\ \A e \in PluginErrors : MapPluginError(e) = AuthErrorFor(e)
      /\ PxFailedAt(px, "Auth") =>
            LET auth == Unwrap(px.upstream).auth IN
            /\ IsSome(auth)
            /\ IsSome(px.plugin_err)
            /\ px.err = Some(AuthErrorFor(Unwrap(px.plugin_err)))
            /\ Unwrap(auth).plugin_type \notin RegisteredPlugins =>
                  px.err = Some("AuthenticationFailed")
            /\ px.consulted = <<>>
            /\ px.sent = 0
            /\ PxDebits(px) = <<>>

\* The apikey plugin does not find its secret: the request ends with
\* SecretNotFound although the upstream has a rate limit.
C22_Witness ==
    \E px \in PxSlots :
      /\ PxFailedAt(px, "Auth")
      /\ px.plugin_err = Some("SecretNotFound")
      /\ px.err = Some("SecretNotFound")
      /\ IsSome(Unwrap(px.upstream).rate_limit)
      /\ px.consulted = <<>>
      /\ PxDebits(px) = <<>>

-----------------------------------------------------------------------------
(* Error surface specification: a DomainError value is turned into what    *)
(* the caller sees: the proxy handler's error response, the Problem of the *)
(* management handlers, the ServiceGatewayError of the SDK facade.         *)

\* The largest retry_after_secs of a rate-limit refusal.
MaxRetrySecs == 60

\* DomainError values: every variant, RateLimitExceeded with and without
\* retry_after_secs.
ErrInputs ==
    {[err |-> e, retry_after |-> None] : e \in DomainErrors}
        \cup {[err |-> "RateLimitExceeded", retry_after |-> Some(n)] : n \in 0..MaxRetrySecs}

InitErr ==
    /\ store = EmptyMap
    /\ upstream_index = EmptyMap
    /\ nextRid = 0
    /\ fm = NoCall
    /\ upstreams = EmptyMap
    /\ nextUid = 0
    /\ proc = [p \in Procs |-> Idle]
    /\ \E i \in ErrInputs : last = [op |-> "input", err |-> i.err, retry_after |-> i.retry_after]
    /\ InitDP

ErrUnchanged ==
    UNCHANGED <<store, upstream_index, nextRid, fm, upstreams, nextUid, proc, dpVars>>

\* proxy_handler: map_err(error_response)
ErrErrorResponse ==
    /\ last.op = "input"
    /\ last' = [op |-> "error_response", err |-> last.err, retry_after |-> last.retry_after,
                response |-> error_response(last.err, last.retry_after)]
    /\ ErrUnchanged

\* Management handlers: Problem::from(err), whose status is the response's.
ErrProblem ==
    /\ last.op = "input"
    /\ last' = [op |-> "problem", err |-> last.err, retry_after |-> last.retry_after,
                response |-> [status |-> http_status_code(last.err),
                              headers |-> ProblemHeaders]]
    /\ ErrUnchanged

\* SDK facade: map_err(domain_err_to_sdk)
ErrSdk ==
    /\ last.op = "input"
    /\ last' = [op |-> "sdk", err |-> last.err, retry_after |-> last.retry_after,
                sdk |-> domain_err_to_sdk(last.err)]
    /\ ErrUnchanged

NextErr == ErrErrorResponse \/ ErrProblem \/ ErrSdk

SpecErr == InitErr /\ [][NextErr]_vars

\* The status the claim gives each DomainError variant.
StatusPerVariant(err) ==
    CASE err \in {"Validation", "MissingTargetHost", "InvalidTargetHost",
                  "UnknownTargetHost"} -> 400
      [] err = "AuthenticationFailed" -> 401
      [] err = "NotFound" -> 404
      [] err = "Conflict" -> 409
      [] err = "PayloadTooLarge" -> 413
      [] err = "RateLimitExceeded" -> 429
      [] err = "SecretNotFound" -> 500
      [] err \in {"ProtocolError", "DownstreamError", "Internal"} -> 502
      [] err = "UpstreamDisabled" -> 503
      [] err \in {"ConnectionTimeout", "RequestTimeout"} -> 504

\* C23: the status of the response made from a DomainError is fixed by the
\* variant alone: 400 for Validation and the three target-host errors, 401
\* AuthenticationFailed, 404 NotFound, 409 Conflict, 413 PayloadTooLarge,
\* 429 RateLimitExceeded, 500 SecretNotFound, 502 ProtocolError,
\* DownstreamError and Internal, 503 UpstreamDisabled, 504 the two timeouts.
C23_StatusPerVariant ==
    last.op \in {"error_response", "problem"} =>
        last.response.status = StatusPerVariant(last.err)

\* C24: a create_upstream or update_upstream call refused for a duplicate
\* alias ends with Conflict on both surfaces: status 409 from the REST
\* handler and the conflict kind from the SDK facade.
C24_ConflictAsIs ==
    (last.op \in {"create_upstream", "update_upstream"}
        /\ ~last.res.ok /\ last.res.err = "Conflict")
    => (last.rest = 409 /\ last.sdk = "Conflict")

\* The number a string of decimal digits denotes.
DigitValue(c) == CHOOSE d \in 0..9 : DigitChar(d) = c

RECURSIVE ParseDecimal(_)
ParseDecimal(str) ==
    IF Len(str) = 1 THEN DigitValue(str[1])
    ELSE 10 * ParseDecimal(SubSeq(str, 1, Len(str) - 1)) + DigitValue(str[Len(str)])

\* C25: the response made from a gateway error has a Retry-After header
\* exactly when the error is RateLimitExceeded with retry_after_secs, and
\* the header's one value is then the decimal form of retry_after_secs.
C25_RetryAfter ==
    last.op = "error_response" =>
        LET h == last.response.headers IN
        IF last.err = "RateLimitExceeded" /\ IsSome(last.retry_after)
        THEN /\ RETRY_AFTER \in DOMAIN h
             /\ Len(h[RETRY_AFTER]) = 1
             /\ h[RETRY_AFTER][1] /= <<>>
             /\ \A i \in 1..Len(h[RETRY_AFTER][1]) :
                    h[RETRY_AFTER][1][i] \in DigitChars
             /\ ParseDecimal(h[RETRY_AFTER][1]) = Unwrap(last.retry_after)
        ELSE RETRY_AFTER \notin DOMAIN h

\* A refusal with a two-digit retry_after_secs has been turned into a
\* response that carries the header.
C25_Witness ==
    /\ last.op = "error_response"
    /\ last.err = "RateLimitExceeded"
    /\ IsSome(last.retry_after)
    /\ Unwrap(last.retry_after) >= 10
    /\ RETRY_AFTER \in DOMAIN last.response.headers

\* C26: a request waits for response headers at most REQUEST_TIMEOUT; a
\* wait ended by the timer ends the request at the dispatch stage with
\* RequestTimeout and status 504, after exactly that long; a connect
\* failure ends it with ConnectionTimeout and any other transport error
\* with DownstreamError.
C26_HeaderTimeout ==
    \A px \in PxSlots :
      px.pc /= "idle" =>
        /\ IsSome(px.waited) => Unwrap(px.waited) <= REQUEST_TIMEOUT
        /\ (IsSome(px.outcome) /\ Unwrap(px.outcome) = "timeout") =>
              /\ PxFailedAt(px, "Dispatch")
              /\ px.err = Some("RequestTimeout")
              /\ PxResponse(px).status = 504
              /\ Unwrap(px.waited) = REQUEST_TIMEOUT
        /\ (IsSome(px.outcome) /\ Unwrap(px.outcome) = "connect_error") =>
              PxFailedAt(px, "Dispatch") /\ px.err = Some("ConnectionTimeout")
        /\ (IsSome(px.outcome) /\ Unwrap(px.outcome) = "transport_error") =>
              PxFailedAt(px, "Dispatch") /\ px.err = Some("DownstreamError")
        /\ (PxFailedAt(px, "Dispatch") /\ px.err = Some("RequestTimeout")) =>
              px.outcome = Some("timeout")

\* A request whose upstream stayed silent until the timer expired.
C26_Witness ==
    \E px \in PxSlots :
      /\ PxFailedAt(px, "Dispatch")
      /\ px.outcome = Some("timeout")
      /\ px.waited = Some(REQUEST_TIMEOUT)
      /\ px.sent = 1

\* C27: a proxied request is sent to the upstream at most once: not at all
\* when it failed at a stage before dispatch or has not reached dispatch
\* yet, and exactly once when the wait for the response has begun, whatever
\* ended it: the timer, a transport error, an error status or a redirect.
C27_AtMostOneSend ==
    \A px \in PxSlots :
      px.pc /= "idle" =>
        /\ px.sent <= 1
        /\ (px.pc = "Error" /\ ~PxFailedAt(px, "Dispatch")) => px.sent = 0
        /\ (px.pc \notin {"Error", "Done", "StreamResponse", "Dispatch"}) => px.sent = 0
        /\ IsSome(px.waited) => px.sent = 1
        /\ (px.pc \in {"StreamResponse", "Done"} \/ PxFailedAt(px, "Dispatch")) =>
              (px.sent = 1 /\ IsSome(px.outcome))

\* A request answered with a redirect has ended, relayed as it came, after
\* one send.
C27_Witness ==
    \E px \in PxSlots :
      /\ px.pc = "Done"
      /\ px.status = Some(302)
      /\ PxResponse(px).status = 302
      /\ px.sent = 1

-----------------------------------------------------------------------------
(* Upstream specification: create_upstream, update_upstream and            *)
(* delete_upstream calls of two tenants, one whole call at a time.         *)

\* Upstreams created in the upstream specification.
UpMaxUpstreams == 2

E_h == MkEndpoint("Https", H_h, 443)
E_g == MkEndpoint("Http", <<"g">>, 80)

\* CreateUpstreamRequest values: enabled with a generated alias ("h"),
\* disabled with an explicit alias.
UpCreateReqs ==
    {[alias |-> None, endpoints |-> <<E_h>>, enabled |-> TRUE],
     [alias |-> Some(A_a), endpoints |-> <<E_h>>, enabled |-> FALSE]}

\* UpdateUpstreamRequest values: one field, several fields, no field, an
\* invalid alias next to another field.
UpUpdateReqs ==
    {[alias |-> Some(A_b)],
     [enabled |-> Some(FALSE), endpoints |-> Some(<<E_g, E_h>>)],
     [alias |-> Some(A_bad), enabled |-> Some(FALSE)],
     [alias |-> None]}

\* create_upstream
UpCreateUpstream ==
    /\ nextUid < UpMaxUpstreams
    /\ \E t \in Tenants, req \in UpCreateReqs :
         LET r == create_upstream(upstreams, t, nextUid + 1, req) IN
         /\ upstreams' = r.U
         /\ nextUid' = IF r.res.ok THEN nextUid + 1 ELSE nextUid
         /\ last' = [op |-> "create_upstream", t |-> t, req |-> req, res |-> r.res,
                     before |-> upstreams]
    /\ UNCHANGED <<store, upstream_index, nextRid, fm, proc, dpVars>>

\* update_upstream, with ids that exist, that belong to the other tenant
\* and that were never given out.
UpUpdateUpstream ==
    /\ \E t \in Tenants, id \in 1..(nextUid + 1), req \in UpUpdateReqs :
         LET r == update_upstream(upstreams, t, id, req) IN
         /\ upstreams' = r.U
         /\ last' = [op |-> "update_upstream", t |-> t, id |-> id, req |-> req,
                     res |-> r.res, before |-> upstreams]
    /\ UNCHANGED <<store, upstream_index, nextRid, fm, nextUid, proc, dpVars>>

\* delete_upstream
UpDeleteUpstream ==
    /\ \E t \in Tenants, id \in 1..nextUid :
         LET r == delete_upstream(upstreams, store, upstream_index, t, id) IN
         /\ upstreams' = r.U
         /\ store' = r.store
         /\ upstream_index' = r.index
         /\ last' = [op |-> "delete_upstream", t |-> t, id |-> id, res |-> r.res,
                     before |-> upstreams]
    /\ UNCHANGED <<nextRid, fm, nextUid, proc, dpVars>>

\* The aliases looked up in the upstream specification.
UpLookupAliases == {A_a, A_b, H_h}

\* A lookup by alias: upstreams.get_by_alias, and resolve_upstream as the
\* proxy pipeline calls it.
UpLookup ==
    /\ \E t \in Tenants, alias \in UpLookupAliases :
         last' = [op |-> "lookup", t |-> t, alias |-> alias,
                  got |-> upstream_get_by_alias(upstreams, t, alias),
                  resolved |-> resolve_upstream(upstreams, t, alias)]
    /\ UNCHANGED <<store, upstream_index, nextRid, fm, upstreams, nextUid, proc, dpVars>>

InitUp == InitRoutes

NextUp ==
    \/ UpCreateUpstream
    \/ UpUpdateUpstream
    \/ UpDeleteUpstream
    \/ UpLookup

SpecUp == InitUp /\ [][NextUp]_vars

\* The fields of an upstream a request can replace, and how the stored
\* field holds a supplied value: as it is, or as Some(value).
PlainPatchFields == {"endpoints", "alias", "enabled"}
OptionPatchFields == {"auth", "headers", "rate_limit"}

\* C28: a successful update_upstream replaces exactly the fields the request
\* supplies, each by the supplied value, keeps every other field of the
\* upstream (id and tenant_id included), touches no other upstream and
\* returns the stored row; a failed update_upstream leaves the repository
\* as it was.
C28_UpdateUpstreamFrame ==
    last.op = "update_upstream" =>
        IF last.res.ok
        THEN LET old == last.before[last.id]
                 new == upstreams[last.id]
             IN  /\ DOMAIN upstreams = DOMAIN last.before
                 /\ \A o \in DOMAIN upstreams \ {last.id} : upstreams[o] = last.before[o]
                 /\ new.id = old.id /\ new.id = last.id
                 /\ new.tenant_id = old.tenant_id /\ new.tenant_id = last.t
                 /\ \A f \in PlainPatchFields :
                        new[f] = IF IsSome(ReqOpt(last.req, f))
                                 THEN Unwrap(last.req[f]) ELSE old[f]
                 /\ \A f \in OptionPatchFields :
                        new[f] = IF IsSome(ReqOpt(last.req, f))
                                 THEN last.req[f] ELSE old[f]
                 /\ last.res.value = new
        ELSE upstreams = last.before

\* A disabled upstream was given a new alias and nothing else.
C28_Witness ==
    /\ last.op = "update_upstream"
    /\ last.res.ok
    /\ ~IsSome(ReqOpt(last.req, "enabled"))
    /\ last.req.alias = Some(A_b)
    /\ ~last.before[last.id].enabled
    /\ last.before[last.id].alias /= A_b
    /\ upstreams[last.id].alias = A_b

\* What resolve_upstream returns for a stored row.
ResolvedRow(row) == IF row.enabled THEN Ok(row) ELSE Err("UpstreamDisabled")

\* C29: the row a successful create_upstream returns is stored when the
\* call returns, and a lookup by a tenant and an alias finds the upstream
\* that holds the alias for the tenant, as created or as last updated, for
\* as long as it is stored: get_by_alias returns it and resolve_upstream
\* returns it or, when it is disabled, UpstreamDisabled.
C29_CreatedIsObserved ==
    /\ (last.op = "create_upstream" /\ last.res.ok) =>
          LET row == last.res.value IN
          /\ row.id \in DOMAIN upstreams
          /\ upstreams[row.id] = row
          /\ upstream_get_by_alias(upstreams, last.t, row.alias) = Some(row)
          /\ resolve_upstream(upstreams, last.t, row.alias) = ResolvedRow(row)
    /\ last.op = "lookup" =>
          \A id \in DOMAIN upstreams :
              (upstreams[id].tenant_id = last.t /\ upstreams[id].alias = last.alias) =>
                  /\ last.got = Some(upstreams[id])
                  /\ last.resolved = ResolvedRow(upstreams[id])

\* A lookup by tenant tA resolved an enabled upstream while tenant tB
\* holds the same alias.
C29_Witness ==
    /\ last.op = "lookup"
    /\ IsSome(last.got)
    /\ last.resolved = Ok(Unwrap(last.got))
    /\ last.t = "tA"
    /\ \E o \in DOMAIN upstreams :
          upstreams[o].tenant_id = "tB" /\ upstreams[o].alias = last.alias

\* C30: the route of the last delete_route call that returned success is
\* gone for its tenant: get_route returns NotFound, and neither list_routes
\* nor resolve_route returns it under any upstream.
C30_DeletedStaysGone ==
    last.op = "delete_route" =>
        /\ ~get_route(store, last.t, last.id).ok
        /\ \A u \in 1..nextUid :
             LET l == list_routes(store, upstream_index, last.t, u, DefaultTop, 0) IN
             \A i \in 1..Len(l) : l[i].id /= last.id
        /\ \A u \in 1..nextUid, m \in ObsMethods, path \in ObsPaths :
             LET r == resolve_route(store, upstream_index, last.t, u, m, path) IN
             r.ok => r.value.id /= last.id

-----------------------------------------------------------------------------
(* Header rules specification: apply_header_rules on a header map and the  *)
(* rules of an upstream.  `set` and `add` are HashMaps: a sequence of      *)
(* pairs with distinct keys stands for one iteration order.                *)

X_A_upper == <<"X","-","A">>
N_bad == <<"x"," ","a">>
V_bad == <<"r","\n">>
V_set2 == <<"s">>
V_add == <<"u">>
V_add2 == <<"w">>

HdrMaps ==
    {EmptyMap, HeadersOf(<< <<X_A, V_in>> >>), HeadersOf(<< <<X_A, V_in>>, <<X_A, V_in2>> >>),
     HeadersOf(<< <<X_A, V_in>>, <<X_B, V_in2>> >>)}

HdrRemoves == {<<>>, <<X_A>>, <<X_A_upper>>, <<N_bad, X_B>>}

HdrSets ==
    {<<>>, << <<X_A, V_rule>> >>, << <<X_A_upper, V_rule>> >>, << <<X_A, V_bad>> >>,
     << <<X_A_upper, V_rule>>, <<X_A, V_set2>> >>,
     << <<X_A, V_set2>>, <<X_A_upper, V_rule>> >>,
     << <<N_bad, V_rule>>, <<X_B, V_set2>> >>}

HdrAdds ==
    {<<>>, << <<X_A, V_add>> >>, << <<X_A_upper, V_add>> >>, << <<X_B, V_bad>> >>,
     << <<X_A, V_add>>, <<X_A_upper, V_add2>> >>,
     << <<X_A_upper, V_add2>>, <<X_A, V_add>> >>}

InitHdr ==
    /\ store = EmptyMap
    /\ upstream_index = EmptyMap
    /\ nextRid = 0
    /\ fm = NoCall
    /\ upstreams = EmptyMap
    /\ nextUid = 0
    /\ proc = [p \in Procs |-> Idle]
    /\ \E h \in HdrMaps, rm \in HdrRemoves, st \in HdrSets, ad \in HdrAdds :
         last = [op |-> "input", headers |-> h, rules |-> MkRules(st, ad, rm, "None", <<>>)]
    /\ InitDP

\* apply_header_rules(&mut headers, &rules)
HdrApply ==
    /\ last.op = "input"
    /\ last' = [op |-> "apply_header_rules", headers |-> last.headers, rules |-> last.rules,
                out |-> apply_header_rules(last.headers, last.rules)]
    /\ UNCHANGED <<store, upstream_index, nextRid, fm, upstreams, nextUid, proc, dpVars>>

NextHdr == HdrApply

SpecHdr == InitHdr /\ [][NextHdr]_vars

\* The values of a name in a header map, none when the name is absent.
HeaderValues(h, n) == IF n \in DOMAIN h THEN h[n] ELSE <<>>

\* The rules that count: all of them, or those whose lower-cased name is a
\* header name and whose value is a header value.
RuleCounts(name, value, valid_only) ==
    valid_only => (HeaderNameOk(ToLower(name)) /\ HeaderValueOk(value))

\* The positions of the pairs of a rule list that name n in lower case.
RulePositions(pairs, n, valid_only) ==
    {i \in 1..Len(pairs) :
        ToLower(pairs[i][1]) = n /\ RuleCounts(pairs[i][1], pairs[i][2], valid_only)}

RemoveListed(names, n, valid_only) ==
    \E i \in 1..Len(names) : ToLower(names[i]) = n /\ RuleCounts(names[i], <<>>, valid_only)

\* What remove, then set, then add leave for the name n: the values before
\* the added ones are the set value when the name is set, nothing when it
\* is only removed, and the values it had otherwise; the added values
\* follow, one for each add rule.
RulesOutcomeOk(h, rules, out, n, valid_only) ==
    LET sets == RulePositions(rules.set, n, valid_only)
        adds == RulePositions(rules.add, n, valid_only)
        vals == HeaderValues(out, n)
        kept == Len(vals) - Cardinality(adds)
    IN  /\ kept >= 0
        /\ IF sets /= {}
           THEN kept = 1 /\ \E i \in sets : vals[1] = rules.set[i][2]
           ELSE IF RemoveListed(rules.remove, n, valid_only)
           THEN kept = 0
           ELSE SubSeq(vals, 1, kept) = HeaderValues(h, n)
        /\ \E f \in [1..Cardinality(adds) -> adds] :
             /\ \A i, j \in 1..Cardinality(adds) : i /= j => f[i] /= f[j]
             /\ \A i \in 1..Cardinality(adds) : vals[kept + i] = rules.add[f[i]][2]

\* The lower-case names a call is about.
HdrNames ==
    DOMAIN last.headers \cup DOMAIN last.out
        \cup {ToLower(last.rules.remove[i]) : i \in 1..Len(last.rules.remove)}
        \cup {ToLower(last.rules.set[i][1]) : i \in 1..Len(last.rules.set)}
        \cup {ToLower(last.rules.add[i][1]) : i \in 1..Len(last.rules.add)}

\* C31 as stated: every listed rule takes effect, in the order remove, set,
\* add, with names compared in lower case.
C31_RemoveSetAdd ==
    last.op = "apply_header_rules" =>
        \A n \in HdrNames : RulesOutcomeOk(last.headers, last.rules, last.out, n, FALSE)

\* C31: the rules whose lower-cased name is a header name and whose value
\* is a header value take effect in the order remove, set, add, with names
\* compared in lower case; every other rule is skipped.
C31_ValidRulesRemoveSetAdd ==
    last.op = "apply_header_rules" =>
        \A n \in HdrNames : RulesOutcomeOk(last.headers, last.rules, last.out, n, TRUE)

\* x-a had two values, is removed, set under an uppercase name and added
\* twice: it ends with the set value followed by both added values.
C31_Witness ==
    /\ last.op = "apply_header_rules"
    /\ Len(HeaderValues(last.headers, X_A)) = 2
    /\ last.rules.remove = <<X_A>>
    /\ last.rules.set = << <<X_A_upper, V_rule>> >>
    /\ Len(last.rules.add) = 2
    /\ last.out[X_A] \in {<<V_rule, V_add, V_add2>>, <<V_rule, V_add2, V_add>>}


(***************************************************************************)
(* The REST proxy handler (api/rest/handlers/proxy.rs): the checks it      *)
(* makes on the request path, the Content-Length header and the body       *)
(* before it calls the data plane.                                         *)
(*                                                                         *)
(* usize is 64 bits wide, so the parsed Content-Length is kept as its      *)
(* digit string and compared digit-wise.                                   *)
(***************************************************************************)
PROXY_PREFIX == <<"/","o","a","g","w","/","v","1","/","p","r","o","x","y","/">>

DEFAULT_MAX_BODY_SIZE_BYTES == 10 * 1024 * 1024

USIZE_MAX_DIGITS ==
    <<"1","8","4","4","6","7","4","4","0","7","3","7","0","9","5","5","1","6","1","5">>

RECURSIVE StripZeros(_)
StripZeros(ds) ==
    IF Len(ds) > 1 /\ Head(ds) = "0" THEN StripZeros(Tail(ds)) ELSE ds

RECURSIVE LexLess(_, _)
LexLess(a, b) ==
    IF a = <<>> \/ b = <<>> THEN FALSE
    ELSE IF Head(a) /= Head(b) THEN DigitValue(Head(a)) < DigitValue(Head(b))
    ELSE LexLess(Tail(a), Tail(b))

\* a < b for two non-empty digit strings, by value.
DigitsLess(a, b) ==
    LET x == StripZeros(a)
        y == StripZeros(b)
    IN  IF Len(x) /= Len(y) THEN Len(x) < Len(y) ELSE LexLess(x, y)

AllDigits(ds) == ds /= <<>> /\ \A i \in 1..Len(ds) : ds[i] \in DigitChars

\* The digit loop of from_str_radix, left to right with the value read so
\* far: a character that is no digit gives InvalidDigit, a digit that takes
\* the value above usize::MAX gives PosOverflow, whichever comes first.
RECURSIVE ParseDigits(_, _)
ParseDigits(digits, result) ==
    IF digits = <<>> THEN Ok(result)
    ELSE IF Head(digits) \notin DigitChars THEN Err("InvalidDigit")
    ELSE LET next == StripZeros(result \o <<Head(digits)>>) IN
         IF DigitsLess(USIZE_MAX_DIGITS, next) THEN Err("PosOverflow")
         ELSE ParseDigits(Tail(digits), next)

\* <usize as FromStr>::from_str: Empty for the empty string, InvalidDigit
\* for a lone sign; an optional "+", then the digit loop.
parse_usize(str) ==
    IF str = <<>> THEN Err("Empty")
    ELSE IF str \in {<<"+">>, <<"-">>} THEN Err("InvalidDigit")
    ELSE ParseDigits(IF Head(str) = "+" THEN Tail(str) ELSE str, <<"0">>)

strip_prefix(s, prefix) ==
    IF StartsWith(s, prefix) THEN Some(SubSeq(s, Len(prefix) + 1, Len(s))) ELSE None

\* The outcome of the handler's own checks: Err(kind) or Ok(remaining).
proxy_handler_checks(path, content_length, body_len, max_body_size) ==
    LET remaining == strip_prefix(path, PROXY_PREFIX) IN
    IF ~IsSome(remaining) THEN Err("Validation")
    ELSE LET rem == Unwrap(remaining)
             pos == FindSlash(rem)
             alias_end == IF pos > 0 THEN pos - 1 ELSE Len(rem)
         IN
         IF alias_end = 0 THEN Err("Validation")
         ELSE LET cl_str == IF IsSome(content_length)
                            THEN ToStr(Unwrap(content_length)) ELSE Ok(<<"0">>)
                  cl_val == IF cl_str.ok THEN parse_usize(cl_str.value) ELSE cl_str
              IN
              IF ~cl_str.ok THEN Err("Validation")
              ELSE IF ~cl_val.ok THEN Err("Validation")
              ELSE IF IsSome(content_length)
                      /\ DigitsLess(Decimal(max_body_size), cl_val.value)
                   THEN Err("PayloadTooLarge")
              ELSE IF body_len > max_body_size THEN Err("PayloadTooLarge")
              ELSE Ok(rem)

ClPaths ==
    {PROXY_PREFIX \o <<"a", "/", "r">>, PROXY_PREFIX, PROXY_PREFIX \o <<"/", "r">>,
     <<"/", "o", "a", "g", "w", "/", "a", "/", "r">>}

ClValues ==
    {<<"0">>, <<"5">>, <<"0", "0", "5">>, Decimal(DEFAULT_MAX_BODY_SIZE_BYTES),
     Decimal(DEFAULT_MAX_BODY_SIZE_BYTES + 1),
     <<"0">> \o Decimal(DEFAULT_MAX_BODY_SIZE_BYTES + 1),
     USIZE_MAX_DIGITS,
     <<"1","8","4","4","6","7","4","4","0","7","3","7","0","9","5","5","1","6","1","6">>,
     <<"9","9","9","9","9","9","9","9","9","9","9","9","9","9","9","9","9","9","9","9","9">>,
     <<>>, <<"+">>, <<"+", "5">>, <<"+">> \o Decimal(DEFAULT_MAX_BODY_SIZE_BYTES + 1),
     <<"-", "1">>, <<"1", ".", "5">>, <<"5", " ">>, <<"a", "b", "c">>,
     <<"5", BYTE_FF>>,
     USIZE_MAX_DIGITS \o <<"x">>,
     <<"1","8","4","4","6","7","4","4","0","7","3","7","0","9","5","5","1","6","1","6","x">>}

\* Content-Length and the length of the body that arrives: a request with a
\* Content-Length carries a body of that length; without one the body is
\* chunked and of any length.
ClInputs ==
    {[content_length |-> Some(v), body_len |-> 0] : v \in ClValues}
    \cup {[content_length |-> None, body_len |-> n] :
            n \in {0, DEFAULT_MAX_BODY_SIZE_BYTES, DEFAULT_MAX_BODY_SIZE_BYTES + 1}}

InitCl ==
    /\ upstreams = CreateUpstreams(EmptyMap, ProxyUpstreamReqs, 1)
    /\ nextUid = Len(ProxyUpstreamReqs)
    /\ LET SI == CreateRoutes([store |-> EmptyMap, index |-> EmptyMap], ProxyRouteReqs, 1) IN
       /\ store = SI.store
       /\ upstream_index = SI.index
    /\ nextRid = Len(ProxyRouteReqs)
    /\ fm = NoCall
    /\ proc = [p \in Procs |-> Idle]
    /\ \E path \in ClPaths, i \in ClInputs :
         last = [op |-> "input", path |-> path, content_length |-> i.content_length,
                 body_len |-> i.body_len]
    /\ InitDP

\* parts.headers of the client's request: its Content-Length, if any.
CONTENT_LENGTH == <<"c","o","n","t","e","n","t","-","l","e","n","g","t","h">>
ClHeaders(content_length) ==
    IF IsSome(content_length)
    THEN HeadersOf(<< <<CONTENT_LENGTH, Unwrap(content_length)>> >>)
    ELSE EmptyMap

\* proxy_handler up to its call of the data plane: a failed check is answered
\* with error_response; otherwise proxy_request starts on "/" + remaining
\* with the client's headers.
ClProxyHandler(task) ==
    /\ last.op = "input"
    /\ requests[task].pc = "idle"
    /\ LET res == proxy_handler_checks(last.path, last.content_length, last.body_len,
                                       DEFAULT_MAX_BODY_SIZE_BYTES)
       IN  /\ last' = [op |-> "proxy_handler", path |-> last.path,
                       content_length |-> last.content_length, body_len |-> last.body_len,
                       entered |-> res.ok,
                       response |-> IF res.ok THEN None
                                    ELSE Some(error_response(res.err, None))]
           /\ IF res.ok
              THEN /\ PxSet(task, ProxyRequestStart(<<"tA", M_GET, <<"/">> \o res.value,
                                                         <<>>, TRUE,
                                                         ClHeaders(last.content_length)>>,
                                                       <<task, 1>>))
                   /\ pxCount' = pxCount + 1
              ELSE UNCHANGED <<requests, pxCount>>
    /\ UNCHANGED <<store, upstream_index, nextRid, fm, upstreams, nextUid, proc,
                   buckets, now, debitLog, rl>>

\* The task that serves the request.
ClTasks == {1}

NextCl ==
    \/ \E task \in ClTasks : ClProxyHandler(task)
    \/ \E task \in ClTasks : PxStep(task)

SpecCl == InitCl /\ [][NextCl]_vars

\* The value is a decimal integer: an optional sign, then one or more
\* decimal digits.
IsDecimalInteger(v) ==
    AllDigits(IF v /= <<>> /\ Head(v) \in {"+", "-"} THEN Tail(v) ELSE v)

\* The decimal integer v is greater than n.
DecimalGreater(v, n) ==
    /\ Head(v) /= "-"
    /\ DigitsLess(Decimal(n), IF Head(v) = "+" THEN Tail(v) ELSE v)

PipelineNotEntered ==
    /\ ~last.entered
    /\ \A task \in PxTasks : requests[task] = Idle
    /\ buckets = EmptyMap
    /\ debitLog = <<>>

\* C32: with a well-formed proxy path and a Content-Length header, a value
\* that is not a decimal integer is answered 400, every decimal integer above
\* max_body_size_bytes is answered 413, and in both cases the pipeline is not
\* entered: no upstream is resolved, no token is debited, nothing is sent.
C32_ContentLength ==
    (last.op = "proxy_handler" /\ last.path = PROXY_PREFIX \o <<"a", "/", "r">>
        /\ IsSome(last.content_length)) =>
      LET v == Unwrap(last.content_length) IN
      /\ ~IsDecimalInteger(v) =>
            /\ PipelineNotEntered
            /\ Unwrap(last.response).status = 400
      /\ (IsDecimalInteger(v) /\ DecimalGreater(v, DEFAULT_MAX_BODY_SIZE_BYTES)) =>
            /\ PipelineNotEntered
            /\ Unwrap(last.response).status = 413


(***************************************************************************)
(* GTS identifiers (domain/gts_helpers.rs, api/rest/extractors.rs).  A     *)
(* Uuid is its sixteen bytes.                                              *)
(***************************************************************************)
UPSTREAM_SCHEMA ==
    <<"g","t","s",".","x",".","c","o","r","e",".","o","a","g","w",".",
      "u","p","s","t","r","e","a","m",".","v","1","~">>

ROUTE_SCHEMA ==
    <<"g","t","s",".","x",".","c","o","r","e",".","o","a","g","w",".",
      "r","o","u","t","e",".","v","1","~">>

HexLower == <<"0","1","2","3","4","5","6","7","8","9","a","b","c","d","e","f">>

HexUpper == <<"0","1","2","3","4","5","6","7","8","9","A","B","C","D","E","F">>

IsHexChar(c) == \E i \in 1..16 : HexLower[i] = c \/ HexUpper[i] = c

HexValue(c) == (CHOOSE i \in 1..16 : HexLower[i] = c \/ HexUpper[i] = c) - 1

RECURSIVE HexEncode(_)
HexEncode(bytes) ==
    IF bytes = <<>> THEN <<>>
    ELSE <<HexLower[(Head(bytes) \div 16) + 1], HexLower[(Head(bytes) % 16) + 1]>>
         \o HexEncode(Tail(bytes))

RECURSIVE HexDecode(_)
HexDecode(chars) ==
    IF chars = <<>> THEN <<>>
    ELSE <<HexValue(chars[1]) * 16 + HexValue(chars[2])>> \o HexDecode(Tail(Tail(chars)))

\* Uuid::simple: 32 lower-case hex digits.
UuidSimple(id) == HexEncode(id)

\* Uuid::hyphenated: groups of 8-4-4-4-12 hex digits.
UuidHyphenated(id) ==
    LET h == HexEncode(id) IN
    SubSeq(h, 1, 8) \o <<"-">> \o SubSeq(h, 9, 12) \o <<"-">> \o SubSeq(h, 13, 16)
        \o <<"-">> \o SubSeq(h, 17, 20) \o <<"-">> \o SubSeq(h, 21, 32)

format_upstream_gts_hyphenated(id) == UPSTREAM_SCHEMA \o UuidHyphenated(id)

format_upstream_gts(id) == UPSTREAM_SCHEMA \o UuidSimple(id)

format_route_gts(id) == ROUTE_SCHEMA \o UuidSimple(id)

\* Uuid::parse_str: the simple and the hyphenated form, optionally in braces
\* or after "urn:uuid:", hex digits in either case.
UuidParseHex(str) ==
    IF Len(str) = 32 /\ \A i \in 1..32 : IsHexChar(str[i])
    THEN Ok(HexDecode(str))
    ELSE Err("InvalidUuid")

UuidParseStr(str) ==
    LET urn == <<"u","r","n",":","u","u","i","d",":">>
        body == IF StartsWith(str, urn) THEN SubSeq(str, Len(urn) + 1, Len(str))
                ELSE IF Len(str) = 38 /\ str[1] = "{" /\ str[38] = "}"
                THEN SubSeq(str, 2, 37)
                ELSE str
    IN  IF Len(body) = 36
        THEN IF \A i \in {9, 14, 19, 24} : body[i] = "-"
             THEN UuidParseHex(SubSeq(body, 1, 8) \o SubSeq(body, 10, 13)
                               \o SubSeq(body, 15, 18) \o SubSeq(body, 20, 23)
                               \o SubSeq(body, 25, 36))
             ELSE Err("InvalidUuid")
        ELSE IF body = str THEN UuidParseHex(body) ELSE Err("InvalidUuid")

\* str.rfind('~'): the last position of the separator, 0 when there is none.
RFindTilde(str) ==
    LET P == {i \in 1..Len(str) : str[i] = "~"} IN
    IF P = {} THEN 0 ELSE CHOOSE i \in P : \A j \in P : j <= i

\* gts::GtsID::new: "gts." then segments separated by "~", each of vendor,
\* package, namespace, type and version; a type identifier is closed by
\* "~", an instance identifier is a chain of two or more segments.
GtsTokenOk(tok) ==
    /\ tok /= <<>>
    /\ \A i \in 1..Len(tok) : tok[i] \in LowerChars \cup DigitChars \cup {"_"}
    /\ tok[1] \in LowerChars

\* str::split on one character.
RECURSIVE SplitOn(_, _)
SplitOn(str, c) ==
    LET P == {i \in 1..Len(str) : str[i] = c} IN
    IF P = {} THEN <<str>>
    ELSE LET i == CHOOSE k \in P : \A j \in P : k <= j
         IN  <<SubSeq(str, 1, i - 1)>> \o SplitOn(SubSeq(str, i + 1, Len(str)), c)

GtsSegmentOk(segment) ==
    LET toks == SplitOn(segment, ".") IN
    /\ Len(toks) = 5
    /\ \A i \in 1..4 : GtsTokenOk(toks[i])
    /\ Len(toks[5]) >= 2
    /\ toks[5][1] = "v"
    /\ \A i \in 2..Len(toks[5]) : toks[5][i] \in DigitChars

GTS_PREFIX == <<"g", "t", "s", ".">>

GtsIdNew(id) ==
    /\ StartsWith(id, GTS_PREFIX)
    /\ LET parts == SplitOn(SubSeq(id, Len(GTS_PREFIX) + 1, Len(id)), "~")
           n == Len(parts)
       IN  IF parts[n] = <<>>
           THEN n >= 2 /\ \A i \in 1..(n - 1) : GtsSegmentOk(parts[i])
           ELSE n >= 2 /\ \A i \in 1..n : GtsSegmentOk(parts[i])

parse_resource_gts(str) ==
    LET tilde_pos == RFindTilde(str) IN
    IF tilde_pos = 0 THEN Err("Validation")
    ELSE LET schema_with_tilde == SubSeq(str, 1, tilde_pos)
             instance == SubSeq(str, tilde_pos + 1, Len(str))
             uuid == UuidParseStr(instance)
         IN  IF ~GtsIdNew(schema_with_tilde) THEN Err("Validation")
             ELSE IF ~uuid.ok THEN Err("Validation")
             ELSE Ok([schema |-> SubSeq(str, 1, tilde_pos - 1), uuid |-> uuid.value])

parse_gts_id(gts_str) ==
    LET r == parse_resource_gts(gts_str) IN
    IF r.ok THEN Ok(r.value.uuid) ELSE r

\* The identifier of the HTTP protocol instance, a chain of two segments.
HTTP_PROTOCOL_ID ==
    <<"g","t","s",".","x",".","c","o","r","e",".","o","a","g","w",".",
      "p","r","o","t","o","c","o","l",".","v","1","~",
      "x",".","c","o","r","e",".","o","a","g","w",".","h","t","t","p",".","v","1">>

GtsBytes == {0, 9, 10, 171, 255}

GtsPositions == {1, 8, 16}

GtsUuids ==
    {[i \in 1..16 |-> IF i = k THEN x ELSE y] :
        k \in GtsPositions, x \in GtsBytes, y \in GtsBytes}

\* Identifiers a client may send that no formatter produced.
GtsForeign ==
    {UPSTREAM_SCHEMA \o UuidHyphenated([i \in 1..16 |-> 171]),
     UPSTREAM_SCHEMA \o <<"{">> \o UuidHyphenated([i \in 1..16 |-> 9]) \o <<"}">>,
     ROUTE_SCHEMA \o <<"u","r","n",":","u","u","i","d",":">>
        \o UuidHyphenated([i \in 1..16 |-> 10]),
     ROUTE_SCHEMA \o SubSeq(HexUpper, 1, 16) \o SubSeq(HexUpper, 1, 16),
     ROUTE_SCHEMA \o <<"x">>,
     UuidSimple([i \in 1..16 |-> 0]),
     <<"~">> \o UuidSimple([i \in 1..16 |-> 0]),
     UPSTREAM_SCHEMA \o <<"~">> \o UuidSimple([i \in 1..16 |-> 0]),
     HTTP_PROTOCOL_ID \o <<"~">> \o UuidSimple([i \in 1..16 |-> 0])}

InitGts ==
    /\ store = EmptyMap
    /\ upstream_index = EmptyMap
    /\ nextRid = 0
    /\ fm = NoCall
    /\ upstreams = EmptyMap
    /\ nextUid = 0
    /\ proc = [p \in Procs |-> Idle]
    /\ \/ \E u \in GtsUuids, k \in {"upstream", "route"} :
            last = [op |-> "uuid", kind |-> k, uuid |-> u]
       \/ \E g \in GtsForeign : last = [op |-> "gts", kind |-> "foreign", gts |-> g]
    /\ InitDP

GtsFormat ==
    /\ last.op = "uuid"
    /\ last' = [op |-> "gts", kind |-> last.kind, uuid |-> last.uuid,
                gts |-> IF last.kind = "upstream" THEN format_upstream_gts(last.uuid)
                        ELSE format_route_gts(last.uuid)]
    /\ UNCHANGED <<store, upstream_index, nextRid, fm, upstreams, nextUid, proc, dpVars>>

GtsParse ==
    /\ last.op = "gts"
    /\ last' = [last EXCEPT !.op = "parsed"] @@ [res |-> parse_gts_id(last.gts)]
    /\ UNCHANGED <<store, upstream_index, nextRid, fm, upstreams, nextUid, proc, dpVars>>

NextGts ==
    \/ GtsFormat
    \/ GtsParse

SpecGts == InitGts /\ [][NextGts]_vars

\* The part of a GTS identifier after its last "~".
InstancePart(gts) == SubSeq(gts, RFindTilde(gts) + 1, Len(gts))

\* C33: parsing the identifier produced by format_upstream_gts(u) or
\* format_route_gts(u) yields u, and the instance part the formatter emits is
\* the simple form: 32 lower-case hex digits and no dash.
C33_GtsRoundTrip ==
    /\ (last.op = "gts" /\ last.kind /= "foreign") =>
          LET inst == InstancePart(last.gts) IN
          /\ Len(inst) = 32
          /\ \A i \in 1..32 : \E j \in 1..16 : HexLower[j] = inst[i]
          /\ Len(last.gts) = 32 + Len(IF last.kind = "upstream" THEN UPSTREAM_SCHEMA
                                      ELSE ROUTE_SCHEMA)
    /\ (last.op = "parsed" /\ last.kind /= "foreign") =>
          /\ last.res.ok
          /\ last.res.value = last.uuid

C33_Witness ==
    /\ last.op = "parsed"
    /\ last.kind = "route"
    /\ last.res.ok
    /\ last.uuid[8] = 171
    /\ last.uuid[1] = 9


(***************************************************************************)
(* normalize_path (infra/proxy/service.rs) applied to paths over a small   *)
(* alphabet, once and then again to its own result.                        *)
(***************************************************************************)
MaxPathLen == 5

PathChars == {"/", ".", "a"}

RECURSIVE PathsUpTo(_)
PathsUpTo(n) ==
    IF n = 0 THEN {<<>>}
    ELSE LET P == PathsUpTo(n - 1) IN
         P \cup {Append(x, c) : x \in {y \in P : Len(y) = n - 1}, c \in PathChars}

InitNorm ==
    /\ store = EmptyMap
    /\ upstream_index = EmptyMap
    /\ nextRid = 0
    /\ fm = NoCall
    /\ upstreams = EmptyMap
    /\ nextUid = 0
    /\ proc = [p \in Procs |-> Idle]
    /\ \E x \in PathsUpTo(MaxPathLen) : last = [op |-> "path", path |-> x]
    /\ InitDP

NormOnce ==
    /\ last.op = "path"
    /\ last' = [op |-> "once", path |-> last.path, once |-> normalize_path(last.path)]
    /\ UNCHANGED <<store, upstream_index, nextRid, fm, upstreams, nextUid, proc, dpVars>>

NormTwice ==
    /\ last.op = "once"
    /\ last' = [op |-> "twice", path |-> last.path, once |-> last.once,
                twice |-> normalize_path(last.once)]
    /\ UNCHANGED <<store, upstream_index, nextRid, fm, upstreams, nextUid, proc, dpVars>>

NextNorm ==
    \/ NormOnce
    \/ NormTwice

SpecNorm == InitNorm /\ [][NextNorm]_vars

\* C34: normalize_path is idempotent: normalising a normalised path returns
\* it unchanged.
C34_NormalizeIdempotent ==
    last.op = "twice" => last.twice = last.once

C34_Witness ==
    /\ last.op = "twice"
    /\ last.path = <<"a", "/", ".", ".", "/">>
    /\ last.once = <<>>
    /\ last.twice = last.once


(***************************************************************************)
(* Claims about concurrent control-plane calls, stated on the route        *)
(* specification.                                                          *)
(***************************************************************************)
\* The routes a running delete_by_upstream took from the index: not yet
\* visited, taken out of the store and not yet put back, or put back.
DbuRows(me) ==
    {store[id] : id \in (SeqToSet(me.ids) \cup SeqToSet(me.surviving)) \cap DOMAIN store}
    \cup (IF me.pc = "dbu_putback" THEN {me.held} ELSE {})

ObservableBy(t2, r) ==
    /\ IsSome(get_by_id(store, t2, r.id))
    /\ \E i \in 1..Len(list_by_upstream(store, upstream_index, t2, r.upstream_id,
                                        DefaultTop, 0)) :
         list_by_upstream(store, upstream_index, t2, r.upstream_id, DefaultTop, 0)[i].id
            = r.id
    /\ \E m \in ObsMethods, path \in ObsPaths :
         IsSome(find_matching(store, upstream_index, t2, r.upstream_id, m, path))

\* C35: while delete_by_upstream(t, u) is executing and no other call is in
\* progress, every route under u that belongs to another tenant t2 is
\* returned to t2 by get_by_id, list_by_upstream and find_matching.
C35_ForeignRoutesStayObservable ==
    \A p \in Procs :
        (/\ proc[p].pc \in {"dbu_loop", "dbu_putback", "dbu_reindex"}
         /\ \A q \in Procs \ {p} : proc[q] = Idle)
        => \A r \in DbuRows(proc[p]) :
             (r.tenant_id /= proc[p].t /\ r.enabled) => ObservableBy(r.tenant_id, r)


\* The number of positions of the sequence s that hold x.
Occurrences(s, x) == Cardinality({i \in 1..Len(s) : s[i] = x})

\* C36: whenever no route operation is in progress, the upstream index is
\* the projection of the primary store: upstream_index[u] lists each stored
\* route with upstream_id = u exactly once and lists no id that is absent
\* from the store.
C36_IndexIsProjectionOfStore ==
    (\A p \in Procs : proc[p] = Idle) =>
        /\ \A id \in DOMAIN store :
             Occurrences(IndexGet(upstream_index, store[id].upstream_id), id) = 1
        /\ \A u \in DOMAIN upstream_index :
             \A i \in 1..Len(upstream_index[u]) :
                /\ upstream_index[u][i] \in DOMAIN store
                /\ store[upstream_index[u][i]].upstream_id = u


(***************************************************************************)
(* Control-plane calls of two tenants made by concurrent tasks, one        *)
(* repository step at a time, with ids of the caller's own and of the      *)
(* other tenant's upstreams and routes.                                    *)
(***************************************************************************)

\* InMemoryRouteRepo::update as one uninterrupted call.
repo_update(S, route) ==
    IF route.id \notin DOMAIN S THEN [res |-> Err("NotFound"), store |-> S]
    ELSE [res |-> Ok(route), store |-> MapInsert(S, route.id, route)]

\* update_route as one uninterrupted call.
update_route(S, t, id, req) ==
    LET existing == get_by_id(S, t, id) IN
    IF ~IsSome(existing) THEN [res |-> Err("NotFound"), store |-> S]
    ELSE repo_update(S, ApplyRoutePatch(Unwrap(existing), req))

\* delete_route as one uninterrupted call.
delete_route(S, I, t, id) == repo_delete(S, I, t, id)

\* The rows of a map under the ids given, in id order.
RECURSIVE RowsById(_, _)
RowsById(M, ids) ==
    IF ids = {} THEN <<>>
    ELSE LET id == CHOOSE i \in ids : \A j \in ids : i <= j
         IN  <<M[id]>> \o RowsById(M, ids \ {id})

\* list_upstreams -> upstreams.list(tenant, query): the caller's upstreams
\* in id order, ListQuery { top, skip } applied.
list_upstreams(U, t, top, skip) ==
    SkipTake(RowsById(U, {id \in DOMAIN U : U[id].tenant_id = t}), skip, top)

IsoMaxRoutes == 1

IsoUpstreamIds == 1..(MaxUpstreams + 1)

IsoRouteIds == 1..(IsoMaxRoutes + 1)

IsoAliases == {A_a, A_b}

IsoUpdateReqs == {[alias |-> Some(A_b), enabled |-> Some(FALSE)]}

\* ListQuery values of the list calls.
IsoPagings == {<<DefaultTop, 0>>, <<1, 1>>}

InitIso ==
    /\ InitRoutes
    /\ InitDP

\* The entity a result carries.
RowOf(res) == IF res.ok THEN {res.value} ELSE {}

\* update_upstream, first step, with the requests of this specification.
IsoUpdateUpstreamRead(p) == AliasUpdateReadOf(p, IsoUpdateReqs)

\* create_route, first step, with the route bound of this specification.
IsoCreateRouteCheck(p) == CreateRouteCheckOf(p, IsoMaxRoutes)

\* get_upstream, get_route, list_upstreams and resolve_upstream: one
\* repository call each.
IsoRead(p) ==
    /\ proc[p] = Idle
    /\ \E t \in Tenants :
         \/ \E id \in IsoUpstreamIds :
              last' = [op |-> "get_upstream", t |-> t,
                       rows |-> RowOf(get_upstream(upstreams, t, id))]
         \/ \E id \in IsoRouteIds :
              last' = [op |-> "get_route", t |-> t,
                       rows |-> RowOf(get_route(store, t, id))]
         \/ \E q \in IsoPagings :
              last' = [op |-> "list_upstreams", t |-> t,
                       rows |-> SeqToSet(list_upstreams(upstreams, t, q[1], q[2]))]
         \/ \E a \in IsoAliases :
              last' = [op |-> "resolve_upstream", t |-> t,
                       rows |-> RowOf(resolve_upstream(upstreams, t, a))]
    /\ UNCHANGED <<store, upstream_index, nextRid, fm, upstreams, nextUid, proc, dpVars>>

\* list_routes -> list_by_upstream, first step: the clone of the id list
\* of the upstream index entry.
ListRoutesStart(p) ==
    /\ proc[p] = Idle
    /\ \E t \in Tenants, u \in IsoUpstreamIds, q \in IsoPagings :
         LET ids == IndexGet(upstream_index, u) IN
         IF ids = <<>>
         THEN /\ last' = [op |-> "list_routes", t |-> t, rows |-> {}]
              /\ UNCHANGED proc
         ELSE /\ SetProc(p, [pc |-> "lr_visit", t |-> t, ids |-> ids, rows |-> <<>>,
                             top |-> q[1], skip |-> q[2]])
              /\ UNCHANGED last
    /\ UNCHANGED <<store, upstream_index, nextRid, fm, upstreams, nextUid, dpVars>>

\* list_by_upstream, one turn of the filter_map: store.get(id) filtered by
\* tenant; after the last id the rows are sorted, skipped and taken.
ListRoutesVisit(p) ==
    /\ proc[p].pc = "lr_visit"
    /\ LET me == proc[p]
           found == get_by_id(store, me.t, Head(me.ids))
           rows == IF IsSome(found) THEN Append(me.rows, Unwrap(found)) ELSE me.rows
       IN  IF Tail(me.ids) = <<>>
           THEN /\ last' = [op |-> "list_routes", t |-> me.t,
                            rows |-> SeqToSet(SkipTake(SortById(rows), me.skip, me.top))]
                /\ SetProc(p, Idle)
           ELSE /\ SetProc(p, [me EXCEPT !.ids = Tail(me.ids), !.rows = rows])
                /\ UNCHANGED last
    /\ UNCHANGED <<store, upstream_index, nextRid, fm, upstreams, nextUid, dpVars>>

\* resolve_route -> find_matching, first step: the clone of the id list of
\* the upstream index entry; parse_method.
ResolveRouteStart(p) ==
    /\ proc[p] = Idle
    /\ \E t \in Tenants, u \in IsoUpstreamIds :
         LET ids == IndexGet(upstream_index, u) IN
         IF ids = <<>>
         THEN /\ last' = [op |-> "resolve_route", t |-> t, rows |-> {}]
              /\ UNCHANGED proc
         ELSE /\ SetProc(p, [pc |-> "rr_visit", t |-> t, ids |-> ids,
                             request_method |-> parse_method(M_GET), path |-> P_ab,
                             acc |-> FindStart])
              /\ UNCHANGED last
    /\ UNCHANGED <<store, upstream_index, nextRid, fm, upstreams, nextUid, dpVars>>

\* find_matching, one turn of the for loop; after the last id the best
\* route is the result, NotFound when there is none.
ResolveRouteVisit(p) ==
    /\ proc[p].pc = "rr_visit"
    /\ LET me == proc[p]
           acc == FindVisit(store, Head(me.ids), me.t, me.request_method, me.path, me.acc)
       IN  IF Tail(me.ids) = <<>>
           THEN /\ last' = [op |-> "resolve_route", t |-> me.t,
                            rows |-> IF IsSome(acc.best) THEN {Unwrap(acc.best)} ELSE {}]
                /\ SetProc(p, Idle)
           ELSE /\ SetProc(p, [me EXCEPT !.ids = Tail(me.ids), !.acc = acc])
                /\ UNCHANGED last
    /\ UNCHANGED <<store, upstream_index, nextRid, fm, upstreams, nextUid, dpVars>>

NextIso ==
    \E p \in Procs :
        \/ CreateUpstream(p)
        \/ IsoUpdateUpstreamRead(p)
        \/ AliasUpdateWrite(p)
        \/ DeleteUpstreamIndexRemove(p)
        \/ DeleteByUpstreamStep(p)
        \/ DeleteUpstreamRow(p)
        \/ IsoCreateRouteCheck(p)
        \/ CreateRouteStore(p)
        \/ CreateRouteIndex(p)
        \/ UpdateRouteGet(p)
        \/ UpdateRouteCheck(p)
        \/ UpdateRouteInsert(p)
        \/ DeleteRouteGet(p)
        \/ DeleteRouteRemove(p)
        \/ DeleteRouteRetain(p)
        \/ IsoRead(p)
        \/ ListRoutesStart(p)
        \/ ListRoutesVisit(p)
        \/ ResolveRouteStart(p)
        \/ ResolveRouteVisit(p)

SpecIso == InitIso /\ [][NextIso]_vars

\* What tenant t2 owns and what its own calls return when each runs alone:
\* its rows, the results of its reads for every id, alias, method and path,
\* and whether each of its writes would succeed.
TenantView(U, S, I, t2) ==
    [rows_u |-> {U[id] : id \in {i \in DOMAIN U : U[i].tenant_id = t2}},
     rows_r |-> {S[id] : id \in {i \in DOMAIN S : S[i].tenant_id = t2}},
     get_u |-> [id \in IsoUpstreamIds |-> get_upstream(U, t2, id)],
     get_r |-> [id \in IsoRouteIds |-> get_route(S, t2, id)],
     list_u |-> list_upstreams(U, t2, DefaultTop, 0),
     list_r |-> [u \in IsoUpstreamIds |-> list_routes(S, I, t2, u, DefaultTop, 0)],
     res_u |-> [a \in IsoAliases |-> resolve_upstream(U, t2, a)],
     res_r |-> [u \in IsoUpstreamIds |->
                  [x \in ObsMethods \X ObsPaths |-> resolve_route(S, I, t2, u, x[1], x[2])]],
     create_u |-> [req \in UpCreateReqs |-> create_upstream(U, t2, 0, req).res.ok],
     update_u |-> [x \in IsoUpstreamIds \X IsoUpdateReqs |->
                     update_upstream(U, t2, x[1], x[2]).res.ok],
     create_r |-> [u \in IsoUpstreamIds |->
                     create_route(U, S, I, t2, 0,
                                  [upstream_id |-> u, http |-> None, priority |-> 0,
                                   enabled |-> TRUE, rate_limit |-> None]).res.ok],
     delete_u |-> [id \in IsoUpstreamIds |-> delete_upstream(U, S, I, t2, id).res.ok],
     delete_r |-> [id \in IsoRouteIds |-> delete_route(S, I, t2, id).res.ok]]

\* The rows the last finished call returned.
IsoRows(l) ==
    IF "rows" \in DOMAIN l THEN l.rows
    ELSE IF "res" \in DOMAIN l THEN RowOf(l.res)
    ELSE {}

IsoReturnsOwn ==
    last.op /= "none" => \A r \in IsoRows(last) : r.tenant_id = last.t

\* The tenant of a call in progress.
IsoTenantOf(me) ==
    IF "t" \in DOMAIN me THEN me.t
    ELSE IF "route" \in DOMAIN me THEN me.route.tenant_id
    ELSE me.row.tenant_id

\* The tenants whose calls take the step: the calls that go on or return,
\* the calls that start, and create_upstream by the row it stores.
IsoCallers ==
    {IsoTenantOf(proc[p]) : p \in {q \in Procs : proc[q] /= Idle /\ proc'[q] /= proc[q]}}
        \cup {IsoTenantOf(proc'[p]) : p \in {q \in Procs : proc[q] = Idle /\ proc'[q] /= Idle}}
        \cup {upstreams'[id].tenant_id : id \in DOMAIN upstreams' \ DOMAIN upstreams}

\* C37: a control-plane call made by tenant t returns no upstream or route
\* of another tenant t2, and no step of it changes what t2 owns or what
\* t2's own calls return.
C37_TenantIsolation ==
    [][/\ IsoReturnsOwn'
       /\ \A t2 \in Tenants \ IsoCallers :
            TenantView(upstreams', store', upstream_index', t2)
               = TenantView(upstreams, store, upstream_index, t2)]_vars

\* C37 case: tenant tB's delete_upstream is at work on an upstream of tA
\* that has a route of tA.
C37_Witness ==
    \E p \in Procs :
        /\ proc[p].pc \in {"dbu_loop", "dbu_putback", "dbu_reindex"}
        /\ proc[p].t = "tB"
        /\ get_upstream(upstreams, "tA", proc[p].u).ok
        /\ \E id \in DOMAIN store :
             store[id].tenant_id = "tA" /\ store[id].upstream_id = proc[p].u


(***************************************************************************)
(* Concurrent update_route calls on one stored route: each task makes one  *)
(* call, step by step, and keeps its request and its result when the call  *)
(* has returned.                                                           *)
(***************************************************************************)
UpdRouteReqs ==
    {[priority |-> Some(1)], [enabled |-> Some(FALSE)],
     [priority |-> Some(2), enabled |-> Some(FALSE)]}

UpdRoute == MkRoute(1, "tA", 1, Some(MkHttp({"Get"}, P_a)), 0, TRUE)

InitUpd ==
    /\ upstreams = create_upstream(EmptyMap, "tA", 1,
                                   [alias |-> Some(A_a), endpoints |-> <<E_h>>,
                                    enabled |-> TRUE]).U
    /\ nextUid = 1
    /\ store = RepoCreateStore(EmptyMap, UpdRoute)
    /\ upstream_index = RepoCreateIndex(EmptyMap, UpdRoute)
    /\ nextRid = 1
    /\ fm = NoCall
    /\ proc = [p \in Procs |-> Idle]
    /\ last = [op |-> "none"]
    /\ InitDP

\* update_route: routes.get_by_id(tenant, id) and the partial update of the
\* copy it returned.
UpdRouteGet(p) ==
    /\ proc[p] = Idle
    /\ \E t \in Tenants, id \in 1..nextRid, req \in UpdRouteReqs :
         IF get_by_id(store, t, id) = None
         THEN SetProc(p, [pc |-> "done", t |-> t, id |-> id, req |-> req,
                          res |-> Err("NotFound")])
         ELSE SetProc(p, [pc |-> "upd_check", t |-> t, id |-> id, req |-> req,
                          route |-> ApplyRoutePatch(Unwrap(get_by_id(store, t, id)), req)])
    /\ UNCHANGED <<store, upstream_index, nextRid, fm, upstreams, nextUid, last, dpVars>>

\* InMemoryRouteRepo::update: store.contains_key(&route.id)
UpdRouteCheck(p) ==
    /\ proc[p].pc = "upd_check"
    /\ IF proc[p].route.id \in DOMAIN store
       THEN SetProc(p, [proc[p] EXCEPT !.pc = "upd_insert"])
       ELSE SetProc(p, [pc |-> "done", t |-> proc[p].t, id |-> proc[p].id,
                        req |-> proc[p].req, res |-> Err("NotFound")])
    /\ UNCHANGED <<store, upstream_index, nextRid, fm, upstreams, nextUid, last, dpVars>>

\* InMemoryRouteRepo::update: store.insert(route.id, route.clone()); Ok(route)
UpdRouteInsert(p) ==
    /\ proc[p].pc = "upd_insert"
    /\ store' = MapInsert(store, proc[p].route.id, proc[p].route)
    /\ SetProc(p, [pc |-> "done", t |-> proc[p].t, id |-> proc[p].id,
                   req |-> proc[p].req, res |-> Ok(proc[p].route)])
    /\ UNCHANGED <<upstream_index, nextRid, fm, upstreams, nextUid, last, dpVars>>

NextUpd ==
    \E p \in Procs :
        \/ UpdRouteGet(p)
        \/ UpdRouteCheck(p)
        \/ UpdRouteInsert(p)

SpecUpd == InitUpd /\ [][NextUpd]_vars

\* The stored route has the value the request asked for in every field the
\* request patches.
ReflectsPatch(route, req) ==
    \A f \in DOMAIN req : IsSome(req[f]) => route[f] = Unwrap(req[f])

\* C38: when two update_route calls that patch disjoint fields of the same
\* route have both returned success, the stored route reflects both patches.
C38_DisjointPatchesBothKept ==
    \A p \in Procs : \A q \in Procs \ {p} :
        (/\ proc[p].pc = "done" /\ proc[q].pc = "done"
         /\ proc[p].res.ok /\ proc[q].res.ok
         /\ proc[p].id = proc[q].id
         /\ DOMAIN proc[p].req \cap DOMAIN proc[q].req = {})
        => /\ proc[p].id \in DOMAIN store
           /\ ReflectsPatch(store[proc[p].id], proc[p].req)
           /\ ReflectsPatch(store[proc[p].id], proc[q].req)


(***************************************************************************)
(* The Host header and the URL of the outbound request, both derived from  *)
(* the first endpoint of the upstream (infra/proxy/service.rs, stages      *)
(* header rules and URL).                                                  *)
(***************************************************************************)
HostSchemes == {"Http", "Https", "Wss", "Wt", "Grpc"}

HostNames == {<<"h">>, <<"g", ".", "h">>, <<"1", ".", "2">>}

HostPorts == {80, 443, 8080}

HostInbound == {EmptyMap, HeaderInsert(EmptyMap, HOST, <<"o">>)}

InitHost ==
    /\ store = EmptyMap
    /\ upstream_index = EmptyMap
    /\ nextRid = 0
    /\ fm = NoCall
    /\ upstreams = EmptyMap
    /\ nextUid = 0
    /\ proc = [p \in Procs |-> Idle]
    /\ \E sc \in HostSchemes, h \in HostNames, port \in HostPorts, hd \in HostInbound :
         last = [op |-> "endpoint", endpoint |-> MkEndpoint(sc, h, port), headers |-> hd]
    /\ InitDP

\* proxy_request: set_host_header on the outbound headers, then
\* build_upstream_url, for the first endpoint.
HostSend ==
    /\ last.op = "endpoint"
    /\ last' = [op |-> "request", endpoint |-> last.endpoint,
                headers |-> set_host_header(last.headers, last.endpoint.host,
                                            last.endpoint.port),
                url |-> build_upstream_url(last.endpoint, P_r, <<>>, <<>>)]
    /\ UNCHANGED <<store, upstream_index, nextRid, fm, upstreams, nextUid, proc, dpVars>>

NextHost == HostSend

SpecHost == InitHost /\ [][NextHost]_vars

\* C39: for every first endpoint, the Host header of the request equals the
\* authority of the URL the request is sent to.
C39_HostEqualsAuthority ==
    (last.op = "request" /\ last.url.ok) =>
        last.headers[HOST] = <<last.url.value.host_port>>


(***************************************************************************)
(* The auth stage of proxy_request (infra/proxy/service.rs, step 4) on     *)
(* outbound header maps with one value, several values and values that are *)
(* not text.                                                               *)
(***************************************************************************)
NoopNames == {<<"x", "-", "a">>, <<"c", "o", "o", "k", "i", "e">>, <<"a", "c", "c", "e", "p", "t">>}

NoopValueLists ==
    {<<>>, <<<<"i">>>>, <<<<"i">>, <<"j">>>>, <<<<"i", BYTE_FF>>>>, <<<<BYTE_FF>>, <<"j">>>>}

\* A header map from a choice of value list per name; an empty list leaves
\* the name out.
NoopHeaderMaps ==
    {[n \in {k \in NoopNames : f[k] /= <<>>} |-> f[n]] : f \in [NoopNames -> NoopValueLists]}

NoopAuths == {None, Some(MkAuth("noop", EmptyMap))}

InitNoop ==
    /\ store = EmptyMap
    /\ upstream_index = EmptyMap
    /\ nextRid = 0
    /\ fm = NoCall
    /\ upstreams = EmptyMap
    /\ nextUid = 0
    /\ proc = [p \in Procs |-> Idle]
    /\ \E h \in NoopHeaderMaps, a \in NoopAuths :
         last = [op |-> "outbound", auth |-> a, headers |-> h]
    /\ InitDP

NoopAuthStage ==
    /\ last.op = "outbound"
    /\ last' = [op |-> "auth", auth |-> last.auth, headers |-> last.headers,
                res |-> IF IsSome(last.auth) THEN Authenticate(Unwrap(last.auth), last.headers)
                        ELSE Ok(last.headers)]
    /\ UNCHANGED <<store, upstream_index, nextRid, fm, upstreams, nextUid, proc, dpVars>>

NextNoop == NoopAuthStage

SpecNoop == InitNoop /\ [][NextNoop]_vars

\* C40: when the upstream's auth plugin is noop, the outbound header map
\* after the auth stage equals the map before it.
C40_NoopLeavesHeaders ==
    (last.op = "auth" /\ IsSome(last.auth)) =>
        /\ last.res.ok
        /\ last.res.value = last.headers

====
